---- MODULE Spec2Model ----
(***************************************************************************)
(* Batch-download orchestrator of Pixiv-Downloader                         *)
(* (src/lib/components/Downloader/useBatchDownload.ts).                    *)
(*                                                                         *)
(* JavaScript runs one macrotask at a time and drains the microtask queue  *)
(* before the next macrotask.  An action of this model is therefore one    *)
(* macrotask (a call of batchDownload or abort, a timer, the settlement of *)
(* a generator pull, of a metadata parse, of a filter evaluation or of a   *)
(* download task) followed by everything the code does until the           *)
(* orchestrator is suspended on a promise again.  A suspension on a        *)
(* promise that is already settled is resumed by a microtask: such a       *)
(* resumption is an action of its own that has priority over every         *)
(* macrotask (the macrotask actions are guarded by ~Runnable).             *)
(*                                                                         *)
(* Strings that the code compares (artwork ids, task ids) are sequences of *)
(* character codes; an artwork id is the one-character string <<k>>.       *)
(***************************************************************************)
EXTENDS Integers, Sequences, FiniteSets, TLC

\* ---------------------------------------------------------------- bounds
MaxIds == 2          \* artwork ids the discovery sequences yield over all runs
MaxBatches == 2      \* discovery batches per run
MaxRuns == 2         \* calls of batchDownload that start a run
MaxPage == 2         \* largest page number typed into the page range
MaxBurst == 7        \* artwork ids of the single batch of SpecBurst
MaxDbCalls == 3       \* calls of add, bulkAdd and clear on the history store
MaxQueryPage == 17    \* largest page asked of hasPage
MaxCap == 5          \* artwork ids the discovery sequences of SpecCap yield
MaxRangePage == 3    \* largest small page number of a page range
MaxFeedPages == 3    \* pages of a short follow-latest feed
MaxSeriesWorks == 5  \* works of a series
MaxSeriesPerPage == 2   \* works the api shows on a page of a series
MaxWorks == 3        \* works of the response that SpecBatch classifies

\* ------------------------------------------------------ program constants
THRESHOLD == 5
Null == -1           \* artworkCount `null' (never equal to a list length)
UNDERSCORE == 0      \* character code of '_' in a task id
ARTWORKS_PER_PAGE == 48          \* illustMangaGenerator, chunkGenerator
FOLLOW_ARTWORKS_PER_PAGE == 60   \* ARTWORKS_PER_PAGE of followLatestGenerator
PAGE_LIMIT == 34                 \* followLatestGenerator
Infinity == 1000000              \* Math.min() of no ids

\* the suffix Math.random().toString(36).slice(2) of a task id
RandomSuffixes == {<<9>>}

\* ids of the discovery functions of downloaderConfig.pageMatch
ConfiguredFnIds == {"follow_latest_all"}
FnIds == ConfiguredFnIds \cup {"no_such_generator"}

VARIABLES
  artworkCount, successd, failed, excluded, downloading, log,   \* stores
  tasks,            \* const tasks: string[]
  signals,          \* one AbortSignal per run; controller is the last one
  listener,         \* abort listener of the current signal registered, not fired
  waitState,        \* waitUntilDownloadComplete of the latest dispatchDownload
  filterInGen,      \* filterOption.filterWhenGenerateIngPage
  pc,               \* where dispatchDownload is suspended
  avaliable, idx,   \* for (const id of avaliable)
  dlPromise,        \* ids whose processDownload promise is in dlPromise
  status429,
  inflight,         \* download tasks that have not settled
  nextId, batches,  \* the discovery sequence: next fresh id, batches yielded
  genCalls, parseCalls, dlCalls,   \* calls made by the current run
  abortCalls, abortArg,            \* calls of onDownloadAbort, last argument
  result,           \* how the last batchDownload ended ("none": not yet)
  ev,               \* the task that ran last, with its inputs (a set of an
                    \* option store is not recorded)
  enableTagFilter,  \* filterOption.enableTagFilter
  whitelistTag, blacklistTag,      \* $whitelistTag, $blacklistTag
  includeFilters, excludeFilters,  \* the selected predicates, by filter id
  checked,          \* the last call of checkValidity: its input and outcome
  history,          \* HistoryDb: the durable table, a record per work id
  caches,           \* HistoryDb: this.caches once it is loaded
  cachesLoaded,     \* HistoryDb: this.caches is defined
  dbQueue,          \* HistoryDb: the transactions not finished, oldest first
  scopes,           \* HistoryDb: the adds whose scope function has not started
  thrown,           \* HistoryDb: what the last call threw ("none": nothing)
  dbCalls,          \* HistoryDb: calls of add, bulkAdd, clear, has, hasPage
  added,            \* HistoryDb: per work id, the pages handed to the
                    \* page-scoped adds that passed the checks
  seq,              \* a discovery sequence of parser.ts: its arguments and locals
  srv,              \* what the pixiv api holds for that sequence
  out,              \* the batches the sequence has yielded
  fetched           \* the pages the sequence has requested from the api

stores == <<artworkCount, successd, failed, excluded, downloading, log>>
calls == <<genCalls, parseCalls, dlCalls>>
vars == <<artworkCount, successd, failed, excluded, downloading, log, tasks,
          signals, listener, waitState, filterInGen, pc, avaliable, idx,
          dlPromise, status429, inflight, nextId, batches, genCalls,
          parseCalls, dlCalls, abortCalls, abortArg, result, ev,
          enableTagFilter, whitelistTag, blacklistTag, includeFilters,
          excludeFilters, checked, history, caches, cachesLoaded, dbQueue,
          scopes, thrown, dbCalls, added, seq, srv, out, fetched>>
options == <<enableTagFilter, whitelistTag, blacklistTag, includeFilters,
             excludeFilters>>
dbVars == <<history, caches, cachesLoaded, dbQueue, scopes, thrown, dbCalls,
           added>>
seqVars == <<seq, srv, out, fetched>>
others == <<options, dbVars, seqVars>>

\* ------------------------------------------------------------- helpers
IdStr(k) == <<k>>
IdsFrom(a, n) == [i \in 1..n |-> IdStr(a + i - 1)]

LogItem(type, message, arg) == [type |-> type, message |-> message, arg |-> arg]
NoLog == LogItem("none", "", <<>>)
ErrorLog(name) == LogItem("Error", name, <<>>)

FailedItem(id, reason) == [id |-> id, reason |-> reason]

\* the arrays held by the stores successd, failed and excluded: the code only
\* pushes to them and reads their length
Empty == <<>>
Push(list, x) == Append(list, x)
\* mutant of PushAll: val.push(id) where the code has val.push(...id)
PushAllNested(list, xs) == Append(list, xs)
PushAll(list, xs) == list \o xs
Size(list) == Len(list)

Event(type, id, reason) == [type |-> type, id |-> id, reason |-> reason]

\* checkIfDownloadCompleted
CheckIfDownloadCompleted(count, s, f, e) == count = Size(s) + Size(f) + Size(e)

\* downloadCompleted(): resolve of the latest waitUntilDownloadComplete
DownloadCompleted(w, isDone) == IF isDone /\ w = "pending" THEN "resolved" ELSE w

\* mutant of DownloadAbort: the listener does not reject the promise
DownloadAbortIgnored(w) == w

\* downloadAbort(reason): reject of the latest waitUntilDownloadComplete
DownloadAbort(w) == IF w = "pending" THEN "rejected" ELSE w

\* generateTaskID
GenerateTaskID(id, rnd) == id \o <<UNDERSCORE>> \o rnd

\* removeTask: tasks.findIndex((storeId) => storeId === id), then splice
FindIndex(ts, id) ==
  IF \E i \in 1..Len(ts) : ts[i] = id
  THEN CHOOSE i \in 1..Len(ts) : ts[i] = id /\ \A j \in 1..(i-1) : ts[j] # id
  ELSE 0
RemoveTask(ts, id) ==
  LET i == FindIndex(ts, id)
  IN IF i # 0 THEN [j \in 1..(Len(ts)-1) |-> IF j < i THEN ts[j] ELSE ts[j+1]]
     ELSE ts

\* signal of the current controller
HasController == signals # <<>>
CurAborted == HasController /\ signals[Len(signals)].aborted
CurReason == signals[Len(signals)].reason
AbortSignal(sigs, reason) ==
  [sigs EXCEPT ![Len(sigs)] = [aborted |-> TRUE, reason |-> reason]]

\* mutant of GetGeneratorError: the page range is not checked
GetGeneratorErrorNoRange(fnId, allPages, pageStart, pageEnd) ==
  IF fnId \notin ConfiguredFnIds THEN "Invalid generator id" ELSE "none"

\* the checks of getGenerator; "none" when it returns a generator
GetGeneratorError(fnId, allPages, pageStart, pageEnd) ==
  IF fnId \notin ConfiguredFnIds THEN "Invalid generator id"
  ELSE IF ~allPages /\ pageEnd < pageStart
       THEN "End page must not be less than the start page."
       ELSE "none"

\* mutant of FailedHandlerList: the rejection is swallowed
FailedHandlerListDrop(aborted, f, id, reason) == f

\* failedHanlderFactory(id)(reason): the failed list, the 429 flag
FailedHandlerList(aborted, f, id, reason) ==
  IF ~aborted THEN Push(f, FailedItem(id, reason)) ELSE f
FailedHandler429(aborted, flag, reason) ==
  IF ~aborted /\ reason = "RequestError429" THEN TRUE ELSE flag

\* handleSucccess
HandleSuccess(aborted, s, id) == IF ~aborted THEN Push(s, id) ELSE s

RaceStates == {"pull", "emptyDelay", "cooldown", "capWait", "delay", "final"}
SleepStates == {"emptyDelay", "cooldown", "delay"}

Settled(id) == \A t \in inflight : t.id # id

\* a microtask is queued that resumes dispatchDownload
Runnable ==
  /\ downloading
  /\ \/ pc \in RaceStates /\ waitState \in {"resolved", "rejected"}
     \/ pc = "capWait" /\ \E i \in 1..Len(dlPromise) : Settled(dlPromise[i])


\* ------------------------------------------------------ the filter pipeline
\* downloaderConfig.filterOption.filters, by id and type
Filters ==
  << [id |-> "inc1", type |-> "include"],
     [id |-> "exc1", type |-> "exclude"],
     [id |-> "inc2", type |-> "include"] >>
FilterIds == {Filters[i].id : i \in 1..Len(Filters)}
Tags == {"a", "b"}

\* what a predicate fn(meta) does: returns true, returns false, or throws
Verdicts == {"true", "false", "throw"}

\* a metadata: whether it has an array `tags', the tags, and what each
\* configured predicate does with it
Metas ==
  {m \in [hasTags : BOOLEAN, tags : SUBSET Tags, verdict : [FilterIds -> Verdicts]] :
     m.hasTags \/ m.tags = {}}

\* the metadata met in the runs of SpecFilter: tagged "b" or "a" and "b",
\* accepted by the second include predicate never
RunMetas ==
  {m \in Metas : /\ m.hasTags /\ "b" \in m.tags /\ m.verdict["inc2"] = "false"
                 /\ m.verdict["exc1"] = "true" => m.verdict["inc1"] = "true"
                 /\ m.verdict["exc1"] # "throw"
                 /\ "a" \in m.tags => m.verdict["inc1"] # "throw" /\ m.verdict["exc1"] = "false"}

\* the values of the selectedFilters store
Selections ==
  {<<>>, <<"inc1">>, <<"inc2">>, <<"exc1">>, <<"ghost">>,
   <<"inc1", "exc1">>, <<"exc1", "inc1">>, <<"inc1", "inc2">>, <<"inc2", "inc1">>,
   <<"exc1", "ghost">>, <<"inc2", "exc1", "inc1">>}

\* filters.find((filter) => filter.id === id): its index, 0 when not found
FindFilter(id) ==
  IF \E k \in 1..Len(Filters) : Filters[k].id = id
  THEN CHOOSE k \in 1..Len(Filters) :
         Filters[k].id = id /\ \A j \in 1..(k - 1) : Filters[j].id # id
  ELSE 0

\* the handler of selectedFilters.subscribe from selected[i] on: what
\* includeFilters and excludeFilters hold in the end
RECURSIVE SelectedFrom(_, _, _, _)
SelectedFrom(selected, i, inc, exc) ==
  IF i > Len(selected) THEN [include |-> inc, exclude |-> exc]
  ELSE LET k == FindFilter(selected[i])
       IN IF k = 0 THEN SelectedFrom(selected, i + 1, inc, exc)
          ELSE IF Filters[k].type = "include"
          THEN SelectedFrom(selected, i + 1, Append(inc, Filters[k].id), exc)
          ELSE SelectedFrom(selected, i + 1, inc, Append(exc, Filters[k].id))
SelectedFilters(selected) == SelectedFrom(selected, 1, <<>>, <<>>)

\* filterTag
FilterTag(meta) ==
  IF ~meta.hasTags THEN TRUE
  ELSE IF whitelistTag # {} THEN \E tag \in whitelistTag : tag \in meta.tags
  ELSE IF blacklistTag # {} THEN ~(\E tag \in blacklistTag : tag \in meta.tags)
  ELSE TRUE

\* the predicates that return a promise which a later task settles; the
\* others answer (or throw) at once
WaitSets == SUBSET FilterIds

\* the record of a call of checkValidity: its input, the predicates it has
\* called in order, and where it is: loop is "done" once it has resolved
\* (result is what it resolved with, threw whether the catch block was
\* entered), else the for-loop in which it awaits the promise of the
\* predicate called last, i the index of that loop; opts is the value of the
\* options at the call where a specification records it
Resolved(meta, seen, res, threw) ==
  [called |-> TRUE, meta |-> meta, result |-> res, evaluated |-> seen,
   threw |-> threw, loop |-> "done", i |-> 0, opts |-> <<>>]
Suspended(meta, seen, loop, i) ==
  [called |-> TRUE, meta |-> meta, result |-> FALSE, evaluated |-> seen,
   threw |-> FALSE, loop |-> loop, i |-> i, opts |-> <<>>]
NoCheck ==
  [called |-> FALSE,
   meta |-> [hasTags |-> FALSE, tags |-> {}, verdict |-> [f \in FilterIds |-> "false"]],
   result |-> FALSE, evaluated |-> <<>>, threw |-> FALSE, loop |-> "done",
   i |-> 0, opts |-> <<>>]

RECURSIVE CheckValidityFrom(_, _, _, _, _, _)

\* mutant of CheckValidityFrom: the catch block lets the item pass
CheckValidityFromCatchAccepts(loop, i, meta, seen, waits, settled) ==
  LET fns == IF loop = "exclude" THEN excludeFilters ELSE includeFilters
  IN IF ~settled /\ i > Len(fns)
     THEN IF loop = "exclude"
          THEN CheckValidityFrom("include", 1, meta, seen, waits, FALSE)
          ELSE Resolved(meta, seen, FALSE, FALSE)
     ELSE LET fn == IF settled THEN seen[Len(seen)] ELSE fns[i]
              now == IF settled THEN seen ELSE Append(seen, fn)
              v == meta.verdict[fn]
          IN IF ~settled /\ fn \in waits THEN Suspended(meta, now, loop, i)
             ELSE IF v = "throw" THEN Resolved(meta, now, TRUE, TRUE)
             ELSE IF v = "true" THEN Resolved(meta, now, loop = "include", FALSE)
             ELSE CheckValidityFrom(loop, i + 1, meta, now, waits, FALSE)

\* the two for-loops of checkValidity from the test `i < fns.length' of loop
\* on, or, when settled, from the moment the promise of the predicate called
\* last settles.  The arrays are read as they are now: fns.length and fns[i]
\* are evaluated again after every await
CheckValidityFrom(loop, i, meta, seen, waits, settled) ==
  LET fns == IF loop = "exclude" THEN excludeFilters ELSE includeFilters
  IN IF ~settled /\ i > Len(fns)
     THEN IF loop = "exclude"
          THEN CheckValidityFrom("include", 1, meta, seen, waits, FALSE)
          ELSE Resolved(meta, seen, FALSE, FALSE)
     ELSE LET fn == IF settled THEN seen[Len(seen)] ELSE fns[i]
              now == IF settled THEN seen ELSE Append(seen, fn)
              v == meta.verdict[fn]
          IN IF ~settled /\ fn \in waits THEN Suspended(meta, now, loop, i)
             ELSE IF v = "throw" THEN Resolved(meta, now, FALSE, TRUE)
             ELSE IF v = "true" THEN Resolved(meta, now, loop = "include", FALSE)
             ELSE CheckValidityFrom(loop, i + 1, meta, now, waits, FALSE)

\* mutant of CheckValidity: an item passes when no include predicate is
\* selected
CheckValidityDefaultAccept(meta, waits) ==
  IF enableTagFilter /\ ~FilterTag(meta) THEN Resolved(meta, <<>>, FALSE, FALSE)
  ELSE IF Len(includeFilters) = 0 THEN Resolved(meta, <<>>, TRUE, FALSE)
  ELSE CheckValidityFrom("exclude", 1, meta, <<>>, waits, FALSE)

\* checkValidity(meta) until it resolves or awaits a pending promise
CheckValidity(meta, waits) ==
  IF enableTagFilter /\ ~FilterTag(meta) THEN Resolved(meta, <<>>, FALSE, FALSE)
  ELSE IF Len(includeFilters) = 0 THEN Resolved(meta, <<>>, FALSE, FALSE)
  ELSE CheckValidityFrom("exclude", 1, meta, <<>>, waits, FALSE)

\* the promise that the call chk awaits settles: checkValidity until it
\* resolves or awaits the next pending promise
CheckValidityResumes(chk, waits) ==
  [CheckValidityFrom(chk.loop, chk.i, chk.meta, chk.evaluated, waits, TRUE)
     EXCEPT !.opts = chk.opts]

\* ------------------------------------------------------- the history store
Pids == {1, 2}

\* a row of the table or an entry of this.caches: none, a fully downloaded
\* work (no page array; null in this.caches) or a Uint8Array of pages
NoRecord == [kind |-> "none", page |-> <<>>]
Full == [kind |-> "full", page |-> <<>>]
Partial(arr) == [kind |-> "partial", page |-> arr]

\* the values handed to the store: a number that is a safe integer (val), a
\* number that is not (text is its literal, val its floor), a string or
\* undefined
JsNum(n) == [type |-> "number", safe |-> TRUE, val |-> n, text |-> ""]
Fraction == [type |-> "number", safe |-> FALSE, val |-> 1, text |-> "1.5"]
NaN == [type |-> "number", safe |-> FALSE, val |-> 0, text |-> "NaN"]
Unsafe == [type |-> "number", safe |-> FALSE, val |-> 0, text |-> "2 ** 53"]
JsStr(text) == [type |-> "string", safe |-> FALSE, val |-> 0, text |-> text]
Undefined == [type |-> "undefined", safe |-> FALSE, val |-> 0, text |-> ""]

\* Number.isSafeInteger(num): no conversion, false for every non-number
IsSafeInteger(num) == num.type = "number" /\ num.safe

\* Number(pid) for the strings of the model
ToNumber(text) ==
  CASE text = "1" -> JsNum(1)
    [] text = "" -> JsNum(0)
    [] text = "-1" -> JsNum(-1)
    [] text = "1.5" -> Fraction
    [] OTHER -> NaN

\* if (typeof pid === 'string') pid = Number(pid)
PidOf(pid) == IF pid.type = "string" THEN ToNumber(pid.text) ELSE pid

\* throwIfInvalidNumber: whether it throws
ThrowIfInvalidNumber(num) == ~(IsSafeInteger(num) /\ num.val >= 0)

\* (byte & (1 << bitIndex)) !== 0 and byte | (1 << bitIndex) on a Uint8Array
TestBit(byte, bitIndex) == (byte \div (2 ^ bitIndex)) % 2 = 1
OrBit(byte, bitIndex) ==
  IF TestBit(byte, bitIndex) THEN byte ELSE (byte + 2 ^ bitIndex) % 256

\* mutant of UpdatePageArray: a grown array does not keep the old bytes
UpdatePageArrayNoCopy(page, has, pageArray) ==
  LET byteIndex == page \div 8
      bitIndex == page % 8
      zeros == [i \in 1..(byteIndex + 1) |-> 0]
  IN IF ~has \/ byteIndex > Len(pageArray) - 1
     THEN [zeros EXCEPT ![byteIndex + 1] = OrBit(0, bitIndex)]
     ELSE [pageArray EXCEPT ![byteIndex + 1] = OrBit(@, bitIndex)]

\* updatePageArray(page, pageArray); has is FALSE when pageArray is undefined
UpdatePageArray(page, has, pageArray) ==
  LET byteIndex == page \div 8
      bitIndex == page % 8
      zeros == [i \in 1..(byteIndex + 1) |-> 0]
      copy == [i \in 1..(byteIndex + 1) |->
                 IF i <= Len(pageArray) THEN pageArray[i] ELSE 0]
  IN IF ~has
     THEN [zeros EXCEPT ![byteIndex + 1] = OrBit(0, bitIndex)]
     ELSE IF byteIndex > Len(pageArray) - 1
     THEN [copy EXCEPT ![byteIndex + 1] = OrBit(@, bitIndex)]
     ELSE [pageArray EXCEPT ![byteIndex + 1] = OrBit(@, bitIndex)]

\* mutant of PageIn: the mask is built from the byte index
PageInWrongBit(rec, page) ==
  LET byteIndex == page \div 8
  IN IF rec.kind = "none" THEN FALSE
     ELSE IF rec.kind = "full" THEN TRUE
     ELSE ~(byteIndex > Len(rec.page) - 1) /\ TestBit(rec.page[byteIndex + 1], byteIndex)

\* the answer of hasPage from a row or an entry
PageIn(rec, page) ==
  LET byteIndex == page \div 8
      bitIndex == page % 8
  IN IF rec.kind = "none" THEN FALSE
     ELSE IF rec.kind = "full" THEN TRUE
     ELSE ~(byteIndex > Len(rec.page) - 1) /\ TestBit(rec.page[byteIndex + 1], bitIndex)

\* has(pid) and hasPage(pid, page) for valid numbers: from this.caches when
\* it is defined, from the table otherwise
Has(pid) ==
  IF cachesLoaded THEN caches[pid].kind # "none" ELSE history[pid].kind # "none"
HasPage(pid, page) ==
  IF cachesLoaded THEN PageIn(caches[pid], page) ELSE PageIn(history[pid], page)

\* ------------------------------------------------ control flow of the loop
\* the body of `for (const id of avaliable)' up to its first await, for the
\* id at index i; s429 is status429 and lg the last log entry written so far
StartId(i, s429, lg) ==
  /\ idx' = i
  /\ status429' = s429
  /\ genCalls' = genCalls
  /\ IF s429
     THEN /\ pc' = "cooldown"
          /\ log' = ErrorLog("Http status: 429, wait for 30 seconds.")
          /\ parseCalls' = parseCalls
     ELSE /\ pc' = "parse"
          /\ log' = lg
          /\ parseCalls' = parseCalls + 1

\* mutant of Continue: the loop over avaliable is left after one id
ContinueBreaks(i, av, s429, lg) ==
  /\ avaliable' = <<>>
  /\ idx' = 0
  /\ status429' = s429
  /\ pc' = "pull"
  /\ log' = lg
  /\ parseCalls' = parseCalls
  /\ genCalls' = genCalls + 1

\* the end of the iteration for index i of av: the next id, or the next pull
Continue(i, av, s429, lg) ==
  IF i < Len(av)
  THEN avaliable' = av /\ StartId(i + 1, s429, lg)
  ELSE /\ avaliable' = <<>>
       /\ idx' = 0
       /\ status429' = s429
       /\ pc' = "pull"
       /\ log' = lg
       /\ parseCalls' = parseCalls
       /\ genCalls' = genCalls + 1

\* writeLog('Add'), generateTaskID, downloadByArtworkId, tasks.push,
\* dlPromise.push and the wait that follows
Dispatch(id) ==
  \E rnd \in RandomSuffixes :
    LET taskId == GenerateTaskID(id, rnd)
        dl == Append(dlPromise, id)
    IN /\ log' = LogItem("Add", "", id)
       /\ inflight' = inflight \cup {[id |-> id, run |-> Len(signals), taskId |-> taskId]}
       /\ tasks' = Append(tasks, taskId)
       /\ dlPromise' = dl
       /\ dlCalls' = dlCalls + 1
       /\ pc' = IF Len(dl) >= THRESHOLD THEN "capWait" ELSE "delay"
       /\ UNCHANGED <<avaliable, idx, status429, genCalls, parseCalls>>

\* the abort listener registered by dispatchDownload
AbortListener ==
  IF listener
  THEN /\ waitState' = DownloadAbort(waitState)
       /\ abortCalls' = abortCalls + 1
       /\ abortArg' = tasks
       /\ listener' = FALSE
  ELSE UNCHANGED <<waitState, abortCalls, abortArg, listener>>

\* the catch block of batchDownload and setDownloading(false)
FinishError(error) ==
  /\ IF ~CurAborted
     THEN signals' = AbortSignal(signals, error) /\ AbortListener
     ELSE UNCHANGED <<signals, waitState, abortCalls, abortArg, listener>>
  /\ log' = ErrorLog(error)
  /\ downloading' = FALSE
  /\ result' = error
  /\ pc' = "idle"
  /\ avaliable' = <<>> /\ idx' = 0 /\ dlPromise' = <<>> /\ status429' = FALSE

\* dispatchDownload returned: writeLog('Info', 'Download complete.')
FinishComplete ==
  /\ log' = LogItem("Info", "Download complete.", <<>>)
  /\ downloading' = FALSE
  /\ result' = "completed"
  /\ pc' = "idle"
  /\ avaliable' = <<>> /\ idx' = 0 /\ dlPromise' = <<>> /\ status429' = FALSE

\* ----------------------------------------------------------------- actions
\* mutant of SetDownloading: the flag is set without the test
SetDownloadingNoThrow(val, isDownloading) == [threw |-> FALSE, val |-> isDownloading]

\* setDownloading(isDownloading) on the value val of the store
SetDownloading(val, isDownloading) ==
  IF val /\ isDownloading THEN [threw |-> TRUE, val |-> val]
  ELSE [threw |-> FALSE, val |-> isDownloading]

BatchDownload(fnId, allPages, pageStart, pageEnd) ==
  IF SetDownloading(downloading, TRUE).threw
  THEN /\ ev' = Event("batchDownload",
                       [fnId |-> fnId, allPages |-> allPages,
                        pageStart |-> pageStart, pageEnd |-> pageEnd],
                       "Already downloading.")
       /\ UNCHANGED <<stores, tasks, signals, listener, waitState, filterInGen,
                      pc, avaliable, idx, dlPromise, status429, inflight,
                      nextId, batches, calls, abortCalls, abortArg, result,
                      others, checked>>
  ELSE /\ Len(signals) < MaxRuns
       /\ LET error == GetGeneratorError(fnId, allPages, pageStart, pageEnd)
          IN /\ artworkCount' = Null
             /\ successd' = Empty /\ failed' = Empty /\ excluded' = Empty
             /\ tasks' = <<>>
             /\ batches' = 0
             /\ parseCalls' = 0 /\ dlCalls' = 0
             /\ avaliable' = <<>> /\ idx' = 0 /\ dlPromise' = <<>> /\ status429' = FALSE
             /\ ev' = Event("batchDownload",
                             [fnId |-> fnId, allPages |-> allPages,
                              pageStart |-> pageStart, pageEnd |-> pageEnd], error)
             /\ result' = error
             /\ UNCHANGED <<filterInGen, others, checked, inflight, nextId, abortCalls, abortArg>>
             /\ IF error # "none"
                THEN /\ signals' = Append(signals, [aborted |-> TRUE, reason |-> error])
                     /\ listener' = FALSE
                     /\ waitState' = "none"
                     /\ log' = ErrorLog(error)
                     /\ downloading' = FALSE
                     /\ pc' = "idle"
                     /\ genCalls' = 0
                ELSE /\ signals' = Append(signals, [aborted |-> FALSE, reason |-> "none"])
                     /\ listener' = TRUE
                     /\ waitState' = "pending"
                     /\ log' = LogItem("Info", "Reset store.", <<>>)
                     /\ downloading' = SetDownloading(downloading, TRUE).val
                     /\ pc' = "pull"
                     /\ genCalls' = 1

\* generator.next() resolves with a batch of the lists invalid, unavaliable
\* and av; chk and sq are the last call of checkValidity and the locals of
\* the discovery sequence at that moment
GenYieldLists(invalid, unavaliable, av, total, maxBatches, chk, sq) ==
  /\ downloading /\ pc = "pull" /\ ~Runnable
  /\ checked' = chk
  /\ seq' = sq
  /\ batches < maxBatches
  /\ LET ni == Len(invalid)
         nu == Len(unavaliable)
         na == Len(av)
         e1 == PushAll(excluded, invalid)
         f1 == PushAll(failed, [i \in 1..nu |-> FailedItem(unavaliable[i], "Masked.")])
         w1 == DownloadCompleted(waitState,
                 CheckIfDownloadCompleted(total, successd, failed, excluded))
         w2 == DownloadCompleted(w1,
                 ni > 0 /\ CheckIfDownloadCompleted(total, successd, failed, e1))
         w3 == DownloadCompleted(w2,
                 nu > 0 /\ CheckIfDownloadCompleted(total, successd, f1, e1))
         lg == IF nu > 0 THEN LogItem("Fail", "Masked.", unavaliable[nu])
               ELSE IF ni > 0 THEN LogItem("Info", "was excluded...", <<ni>>)
               ELSE log
     IN /\ ev' = Event("yield", <<ni, nu, na>>, "none")
        /\ nextId' = nextId + ni + nu + na
        /\ batches' = batches + 1
        /\ UNCHANGED <<filterInGen, options, dbVars, srv, out, fetched, inflight,
                       tasks, dlCalls, successd>>
        /\ IF CurAborted
           THEN /\ FinishError(CurReason)
                /\ UNCHANGED <<artworkCount, failed, excluded, genCalls, parseCalls>>
           ELSE /\ artworkCount' = total
                /\ UNCHANGED <<downloading, dlPromise, result>>
                /\ excluded' = e1
                /\ failed' = f1
                /\ waitState' = w3
                /\ UNCHANGED <<signals, listener, abortCalls, abortArg>>
                /\ IF na = 0
                   THEN /\ pc' = "emptyDelay"
                        /\ log' = lg
                        /\ avaliable' = <<>> /\ idx' = 0
                        /\ UNCHANGED <<status429, genCalls, parseCalls>>
                   ELSE avaliable' = av /\ StartId(1, status429, lg)

\* a batch of ni invalid, nu unavaliable and na avaliable fresh ids, in this
\* order
GenYieldIn(ni, nu, na, total, maxIds, maxBatches) ==
  /\ nextId + ni + nu + na - 1 <= maxIds
  /\ GenYieldLists(IdsFrom(nextId, ni), IdsFrom(nextId + ni, nu),
                   IdsFrom(nextId + ni + nu, na), total, maxBatches, checked, seq)

GenYield(ni, nu, na, total) == GenYieldIn(ni, nu, na, total, MaxIds, MaxBatches)

\* generator.next() resolves with done: the loop ends, `return
\* waitUntilDownloadComplete'
GenDone ==
  /\ downloading /\ pc = "pull" /\ ~Runnable
  /\ pc' = "final"
  /\ ev' = Event("done", <<>>, "none")
  /\ UNCHANGED <<result, stores, tasks, signals, listener, waitState, filterInGen, others, checked,
                 avaliable, idx, dlPromise, status429, inflight, nextId, batches,
                 calls, abortCalls, abortArg>>

\* generator.next() rejects
GenThrows ==
  /\ downloading /\ pc = "pull" /\ ~Runnable
  /\ FinishError("GeneratorError")
  /\ ev' = Event("genError", <<>>, "GeneratorError")
  /\ UNCHANGED <<artworkCount, successd, failed, excluded, tasks, filterInGen, others, checked,
                 inflight, nextId, batches, calls>>

\* what follows a race of a sleep that resolved (timer or completion)
AfterSleep ==
  /\ CASE pc = "emptyDelay" -> Continue(0, <<>>, status429, log)
       [] pc = "cooldown" ->
            /\ status429' = FALSE
            /\ pc' = "parse"
            /\ parseCalls' = parseCalls + 1
            /\ UNCHANGED <<avaliable, idx, log, genCalls>>
       [] pc = "delay" -> Continue(idx, avaliable, status429, log)
  /\ UNCHANGED <<artworkCount, successd, failed, excluded, downloading, tasks,
                 signals, listener, waitState, filterInGen, others, checked, dlPromise, inflight,
                 nextId, batches, dlCalls, abortCalls, abortArg, result>>

\* sleep(1500) / sleep(30000) / sleep(1000) expires
TimerFires ==
  /\ downloading /\ pc \in SleepStates /\ waitState = "pending"
  /\ AfterSleep
  /\ ev' = Event("timer", <<>>, pc)

\* a race resolves without a timer: the concurrency-cap race is won by a
\* settled processDownload promise of dlPromise (the first settled promise in
\* the array wins, waitUntilDownloadComplete is the last), any race is won by
\* waitUntilDownloadComplete once it is resolved
CapWon == pc = "capWait" /\ \E i \in 1..Len(dlPromise) : Settled(dlPromise[i])
ResumeResolved ==
  /\ downloading /\ pc \in RaceStates
  /\ CapWon \/ waitState = "resolved"
  /\ ev' = ev
  /\ IF pc \in SleepStates THEN AfterSleep
     ELSE IF pc = "capWait"
     THEN /\ dlPromise' = <<>>
          /\ Continue(idx, avaliable, status429, log)
          /\ UNCHANGED <<artworkCount, successd, failed, excluded, downloading,
                         tasks, signals, listener, waitState, filterInGen, others, checked,
                         inflight, nextId, batches, dlCalls, abortCalls, abortArg,
                         result>>
     ELSE \* pull, final: the loop ends and dispatchDownload returns
          /\ FinishComplete
          /\ UNCHANGED <<artworkCount, successd, failed, excluded, tasks, signals,
                         listener, waitState, filterInGen, others, checked, inflight, nextId,
                         batches, calls, abortCalls, abortArg>>

\* a race won by waitUntilDownloadComplete, rejected
ResumeByAbort ==
  /\ downloading /\ pc \in RaceStates /\ waitState = "rejected"
  /\ ~CapWon
  /\ ev' = ev
  /\ FinishError(CurReason)
  /\ UNCHANGED <<artworkCount, successd, failed, excluded, tasks, filterInGen, others, checked,
                 inflight, nextId, batches, calls>>


\* what follows `await checkValidity(artworkMeta)' for the id at idx: isValid
\* is what it resolved with, chk the record of the call
FilterOutcome(isValid, chk) ==
  /\ checked' = chk
  /\ LET id == avaliable[idx]
         e1 == Push(excluded, id)
     IN /\ ev' = Event("filter", id, IF isValid THEN "valid" ELSE "invalid")
        /\ UNCHANGED <<artworkCount, successd, failed, downloading, signals,
                       listener, filterInGen, others, nextId, batches, abortCalls, abortArg,
                       result>>
        /\ IF ~isValid
           THEN /\ excluded' = e1
                /\ waitState' = DownloadCompleted(waitState,
                      CheckIfDownloadCompleted(artworkCount, successd, failed, e1))
                /\ Continue(idx, avaliable, status429,
                            LogItem("Info", "was excluded...", id))
                /\ UNCHANGED <<tasks, dlPromise, inflight, dlCalls>>
           ELSE /\ Dispatch(id)
                /\ UNCHANGED <<excluded, waitState>>

\* what `await checkValidity(artworkMeta)' of the deferred filtering does in
\* the macrotask of the parse: "pending" when checkValidity awaits a promise
\* that a later macrotask settles, "valid" or "invalid" when it resolves at
\* once (no predicate is evaluated, or the predicates return booleans or
\* settled promises)
FilterAnswers == {"pending", "valid", "invalid"}

\* parseMetaByArtworkId(id) settles; outcome "ok" or the rejection reason;
\* filter and chk are the answer and the record of the checkValidity call
\* that follows a parse of the deferred filtering
ParseSettlesIn(outcome, filter, chk) ==
  /\ downloading /\ pc = "parse"
  /\ IF ~CurAborted /\ outcome = "ok" /\ ~filterInGen /\ filter # "pending"
     THEN FilterOutcome(filter = "valid", chk)
     ELSE
       LET id == avaliable[idx]
           f1 == FailedHandlerList(CurAborted, failed, id, outcome)
           s429 == FailedHandler429(CurAborted, status429, outcome)
       IN /\ ev' = Event(IF outcome = "ok" THEN "parseOk" ELSE "parseFail", id, outcome)
          /\ UNCHANGED <<artworkCount, successd, excluded, filterInGen, others, nextId, batches>>
          /\ checked' = IF ~CurAborted /\ outcome = "ok" /\ ~filterInGen THEN chk ELSE checked
          /\ IF CurAborted
             THEN \* signal.throwIfAborted()
                  /\ FinishError(CurReason)
                  /\ UNCHANGED <<failed, tasks, inflight, calls>>
             ELSE IF outcome # "ok"
             THEN \* the handler of .catch, then `continue'
                  /\ failed' = f1
                  /\ waitState' = DownloadCompleted(waitState,
                        CheckIfDownloadCompleted(artworkCount, successd, f1, excluded))
                  /\ Continue(idx, avaliable, s429, LogItem("Fail", outcome, id))
                  /\ UNCHANGED <<downloading, tasks, signals, listener, dlPromise,
                                 inflight, dlCalls, abortCalls, abortArg, result>>
             ELSE IF filterInGen
             THEN /\ Dispatch(id)
                  /\ UNCHANGED <<failed, downloading, signals, listener, waitState,
                                 abortCalls, abortArg, result>>
             ELSE \* await checkValidity(artworkMeta), pending
                  /\ pc' = "filter"
                  /\ UNCHANGED <<failed, downloading, log, tasks, signals, listener,
                                 waitState, avaliable, idx, dlPromise, status429,
                                 inflight, calls, abortCalls, abortArg, result>>

ParseSettles(outcome, filter) == ParseSettlesIn(outcome, filter, checked)

\* a pending checkValidity(artworkMeta) of the deferred filtering settles
FilterSettlesIn(isValid, chk) ==
  /\ downloading /\ pc = "filter"
  /\ FilterOutcome(isValid, chk)

FilterSettles(isValid) == FilterSettlesIn(isValid, checked)

\* the promise of downloadByArtworkId settles for task t: handleSucccess or
\* the failed handler, then removeTask
TaskSettles(t, outcome) ==
  /\ t \in inflight
  /\ ~Runnable
  /\ LET ab == signals[t.run].aborted
         s1 == IF outcome = "ok" THEN HandleSuccess(ab, successd, t.id) ELSE successd
         f1 == IF outcome = "ok" THEN failed
               ELSE FailedHandlerList(ab, failed, t.id, outcome)
         own == downloading /\ t.run = Len(signals)
     IN /\ ev' = Event(IF outcome = "ok" THEN "taskOk" ELSE "taskFail", t.id, outcome)
        /\ successd' = s1
        /\ failed' = f1
        /\ log' = IF ab THEN log
                  ELSE IF outcome = "ok" THEN LogItem("Complete", "", t.id)
                  ELSE LogItem("Fail", outcome, t.id)
        /\ status429' = IF own /\ outcome # "ok"
                        THEN FailedHandler429(ab, status429, outcome)
                        ELSE status429
        /\ waitState' = DownloadCompleted(waitState,
              ~ab /\ CheckIfDownloadCompleted(artworkCount, s1, f1, excluded))
        /\ tasks' = RemoveTask(tasks, t.id)
        /\ inflight' = inflight \ {t}
        /\ UNCHANGED <<artworkCount, excluded, downloading, signals, listener,
                       filterInGen, others, checked, pc, avaliable, idx, dlPromise, nextId, batches,
                       calls, abortCalls, abortArg, result>>

\* abort(): controller && controller.abort(new CancelError())
Abort ==
  /\ ~Runnable
  /\ IF HasController /\ ~CurAborted
     THEN /\ signals' = AbortSignal(signals, "CancelError")
          /\ AbortListener
          /\ ev' = Event("abort", <<>>, "CancelError")
     ELSE /\ UNCHANGED <<signals, listener, waitState, abortCalls, abortArg>>
          /\ ev' = Event("abort", <<>>, "none")
  /\ UNCHANGED <<stores, tasks, filterInGen, others, checked, pc, avaliable, idx, dlPromise,
                 status429, inflight, nextId, batches, calls, result>>

\* ------------------------------------------------------- specifications
Outcomes == {"ok", "Error", "RequestError429"}

InitRun ==
  /\ artworkCount = 0
  /\ successd = Empty /\ failed = Empty /\ excluded = Empty
  /\ downloading = FALSE
  /\ log = NoLog
  /\ tasks = <<>>
  /\ signals = <<>>
  /\ listener = FALSE
  /\ waitState = "none"
  /\ filterInGen \in BOOLEAN
  /\ pc = "idle"
  /\ avaliable = <<>> /\ idx = 0 /\ dlPromise = <<>> /\ status429 = FALSE
  /\ inflight = {}
  /\ nextId = 1 /\ batches = 0
  /\ genCalls = 0 /\ parseCalls = 0 /\ dlCalls = 0
  /\ abortCalls = 0 /\ abortArg = <<>>
  /\ result = "none"
  /\ ev = Event("none", <<>>, "none")

\* one include predicate is selected, no tag filtering: checkValidity is
\* that predicate's verdict
\* no use of the history store
\* ------------------------------------------------ the discovery sequences
\* pageRange: null, or [start, end]
NullRange == [given |-> FALSE, start |-> 0, end |-> 0]
Range(s, e) == [given |-> TRUE, start |-> s, end |-> e]

\* a response of the api: the page it shows (0: none), the number of works
\* on it and the smallest work id on it
PageData(src, n, min) == [src |-> src, n |-> n, min |-> min]
NoPage == PageData(0, 0, Infinity)

\* a yielded batch: total, page, the number of ids in avaliable, invalid and
\* unavaliable together, and the page of the api they come from
Batch(total, page, n, src) == [total |-> total, page |-> page, n |-> n, src |-> src]
NoBatch == Batch(0, 0, 0, 0)

Min(a, b) == IF a < b THEN a ELSE b

\* the arguments and the locals of a sequence; at is the yield it is
\* suspended at, error the error it has thrown
NewSeq(kind, range) ==
  [kind |-> kind, range |-> range, at |-> "start", error |-> "none",
   page |-> 0, total |-> 0, startPage |-> 0, endPage |-> 0,
   earliestId |-> 0, cache |-> NoPage, hasCache |-> FALSE, data |-> NoPage,
   offset |-> 0, offsetEnd |-> 0, remaining |-> 0, yieldedId |-> 0]
NoSeq ==
  /\ seq = NewSeq("none", NullRange)
  /\ srv = [count |-> 0, perPage |-> 0, pages |-> 0, first |-> 0, second |-> 0,
            last |-> 0, beyond |-> "empty"]
  /\ out = <<>>
  /\ fetched = <<>>

\* the outcome of one generator.next(): the locals afterwards, the batch it
\* yielded if it yielded one, and the pages it requested
Yields(s, at, batch, pages) ==
  [seq |-> [s EXCEPT !.at = at], yields |-> TRUE, batch |-> batch, pages |-> pages]
Returns(s, pages) ==
  [seq |-> [s EXCEPT !.at = "done"], yields |-> FALSE, batch |-> NoBatch,
   pages |-> pages]
Throws(s, error, pages) ==
  [seq |-> [s EXCEPT !.at = "error", !.error = error], yields |-> FALSE,
   batch |-> NoBatch, pages |-> pages]

\* ---- illustMangaGenerator: srv.count is the number of ids of the profile
IllustMangaChunk(s) ==
  LET chunk == Min(ARTWORKS_PER_PAGE, s.remaining)
  IN Yields([s EXCEPT !.remaining = @ - chunk], "yielded",
            Batch(s.total, s.page, chunk, s.page), <<s.page>>)
IllustMangaStep(s) ==
  IF s.at = "start"
  THEN LET r == s.range
           sliceStart == IF r.given THEN (r.start - 1) * ARTWORKS_PER_PAGE ELSE 0
           sliceEnd == IF r.given THEN r.end * ARTWORKS_PER_PAGE ELSE srv.count
           selected == Min(sliceEnd, srv.count) - Min(sliceStart, srv.count)
           page == IF r.given THEN r.start ELSE 1
       IN IF srv.count = 0 THEN Throws(s, "Error", <<>>)
          ELSE IF ~(selected > 0) THEN Throws(s, "RangeError", <<>>)
          ELSE IllustMangaChunk([s EXCEPT !.page = page, !.total = selected,
                                          !.remaining = selected])
  ELSE IF s.remaining > 0
  THEN IllustMangaChunk([s EXCEPT !.page = @ + 1])
  ELSE Returns(s, <<>>)

\* ---- chunkGenerator: srv.count is the total the api reports
ChunkWorks(offset) ==
  IF offset < srv.count THEN Min(ARTWORKS_PER_PAGE, srv.count - offset) ELSE 0
\* mutant of ChunkRequest: offsetEnd and total are computed at every request
ChunkRequestRecomputes(s) ==
  LET r == s.range
      totalArtwork == srv.count
      offsetEnd == IF ~r.given THEN totalArtwork
                   ELSE IF r.end * ARTWORKS_PER_PAGE > totalArtwork
                   THEN totalArtwork ELSE r.end * ARTWORKS_PER_PAGE
      total == offsetEnd - s.offset
  IN IF totalArtwork = 0 THEN Throws(s, "Error", <<s.page>>)
     ELSE IF offsetEnd <= s.offset THEN Throws(s, "RangeError", <<s.page>>)
     ELSE Yields([s EXCEPT !.offsetEnd = offsetEnd, !.total = total], "yielded",
                 Batch(total, s.page, ChunkWorks(s.offset), s.page), <<s.page>>)

\* one request of the do-loop and what follows it up to the yield
ChunkRequest(s) ==
  LET r == s.range
      totalArtwork == srv.count
      offsetEnd == IF s.offsetEnd # 0 THEN s.offsetEnd
                   ELSE IF ~r.given THEN totalArtwork
                   ELSE IF r.end * ARTWORKS_PER_PAGE > totalArtwork
                   THEN totalArtwork ELSE r.end * ARTWORKS_PER_PAGE
      total == IF s.offsetEnd # 0 THEN s.total ELSE offsetEnd - s.offset
  IN IF totalArtwork = 0 THEN Throws(s, "Error", <<s.page>>)
     ELSE IF s.offsetEnd = 0 /\ offsetEnd <= s.offset
     THEN Throws(s, "RangeError", <<s.page>>)
     ELSE Yields([s EXCEPT !.offsetEnd = offsetEnd, !.total = total], "yielded",
                 Batch(total, s.page, ChunkWorks(s.offset), s.page), <<s.page>>)
ChunkStep(s) ==
  IF s.at = "start"
  THEN LET r == s.range
       IN ChunkRequest([s EXCEPT
            !.page = IF r.given THEN r.start ELSE 1,
            !.offset = IF r.given THEN (r.start - 1) * ARTWORKS_PER_PAGE ELSE 0])
  ELSE IF s.offset + ARTWORKS_PER_PAGE < s.offsetEnd
  THEN ChunkRequest([s EXCEPT !.page = @ + 1, !.offset = @ + ARTWORKS_PER_PAGE])
  ELSE Returns(s, <<>>)

\* ---- followLatestGenerator: the feed has srv.pages pages, page p holds
\* FeedSize(p) works with ids that get smaller from page to page; beyond the
\* last page the api repeats the last page or answers with no ids
FeedSize(p) ==
  IF p = srv.pages THEN srv.last
  ELSE IF p = 1 THEN srv.first
  ELSE IF p = 2 THEN srv.second
  ELSE FOLLOW_ARTWORKS_PER_PAGE
FeedBase == 1000
GetFollowLatestWorks(p) ==
  IF p <= srv.pages THEN PageData(p, FeedSize(p), FeedBase - p)
  ELSE IF srv.beyond = "dup" /\ srv.pages >= 1
  THEN PageData(srv.pages, FeedSize(srv.pages), FeedBase - srv.pages)
  ELSE NoPage

\* yield* yieldData(data, page); has is FALSE when data is undefined
YieldData(s, at, has, data, page, pages) ==
  IF ~has THEN Throws(s, "TypeError", pages)
  ELSE Yields(s, at, Batch(s.total, page, data.n, data.src), pages)

\* mutant of FollowLatestLoop: a duplicated page is taken for a new one
FollowLatestLoopNoDuplicateTest(s) ==
  LET page == s.page + 1
      data == GetFollowLatestWorks(page)
  IN IF page <= s.endPage
     THEN YieldData([s EXCEPT !.page = page, !.earliestId = data.min,
                              !.total = @ + data.n, !.cache = data],
                    "loop", s.hasCache, s.cache, page - 1, <<page>>)
     ELSE YieldData([s EXCEPT !.page = page], "last", s.hasCache, s.cache,
                    page - 1, <<>>)

\* while (++page <= endPage) { ... } up to the next yield
FollowLatestLoop(s) ==
  LET page == s.page + 1
      data == GetFollowLatestWorks(page)
  IN IF page <= s.endPage
     THEN IF data.min >= s.earliestId
          THEN YieldData([s EXCEPT !.page = page], "duplicate", s.hasCache,
                         s.cache, page - 1, <<page>>)
          ELSE YieldData([s EXCEPT !.page = page, !.earliestId = data.min,
                                   !.total = @ + data.n, !.cache = data],
                         "loop", s.hasCache, s.cache, page - 1, <<page>>)
     ELSE YieldData([s EXCEPT !.page = page], "last", s.hasCache, s.cache,
                    page - 1, <<>>)

FollowLatestStep(s) ==
  CASE s.at = "start" ->
         LET r == s.range
             startPage == IF r.given THEN r.start ELSE 1
             endPage == IF ~r.given \/ r.end > PAGE_LIMIT THEN PAGE_LIMIT ELSE r.end
             data == GetFollowLatestWorks(startPage)
             total == data.n
             secondPageData == GetFollowLatestWorks(startPage + 1)
             s0 == [s EXCEPT !.startPage = startPage, !.endPage = endPage,
                             !.page = startPage, !.total = total,
                             !.earliestId = data.min, !.data = data]
         IN IF startPage > PAGE_LIMIT THEN Throws(s, "RangeError", <<>>)
            ELSE IF endPage = startPage
            THEN YieldData(s0, "single", TRUE, data, startPage, <<startPage>>)
            ELSE IF total = FOLLOW_ARTWORKS_PER_PAGE
            THEN IF secondPageData.min < data.min
                 THEN YieldData([s0 EXCEPT !.page = startPage + 1,
                                           !.earliestId = secondPageData.min,
                                           !.cache = secondPageData,
                                           !.hasCache = TRUE,
                                           !.total = total + secondPageData.n],
                                "first", TRUE, data, startPage,
                                <<startPage, startPage + 1>>)
                 ELSE YieldData([s0 EXCEPT !.page = startPage + 1], "first",
                                TRUE, data, startPage, <<startPage, startPage + 1>>)
            ELSE YieldData(s0, "first", TRUE, data, startPage, <<startPage>>)
    [] s.at = "single" -> Returns(s, <<>>)
    [] s.at = "first" ->
         IF s.total = FOLLOW_ARTWORKS_PER_PAGE THEN Returns(s, <<>>)
         ELSE IF s.total < FOLLOW_ARTWORKS_PER_PAGE * 2 \/ s.endPage - s.startPage = 1
         THEN YieldData(s, "two", s.hasCache, s.cache, s.page, <<>>)
         ELSE FollowLatestLoop(s)
    [] s.at = "two" -> Returns(s, <<>>)
    [] s.at = "loop" -> FollowLatestLoop(s)
    [] s.at = "duplicate" ->
         \* break, then `yield last page'
         YieldData(s, "last", s.hasCache, s.cache, s.page - 1, <<>>)
    [] s.at = "last" -> Returns(s, <<>>)

\* ---- seriesGenerator: the series has srv.count works, srv.perPage on a
\* page, in descending order, so that order 1 is on the last page
SeriesLength(p) ==
  IF (p - 1) * srv.perPage < srv.count
  THEN Min(srv.perPage, srv.count - (p - 1) * srv.perPage) ELSE 0
SeriesRequest(s) ==
  LET series == SeriesLength(s.page)
      isLastPage == series > 0 /\ s.page * srv.perPage >= srv.count
      totalWorkCount == srv.count
      artworksPerPage == series
      lastPage == (totalWorkCount + artworksPerPage - 1) \div artworksPerPage
      lastPageWorkCount == IF totalWorkCount % artworksPerPage # 0
                           THEN totalWorkCount % artworksPerPage
                           ELSE artworksPerPage
      total == IF s.total # 0 THEN s.total
               ELSE IF isLastPage THEN series
               ELSE IF s.endPage = 0 THEN totalWorkCount
               ELSE IF s.endPage >= lastPage
               THEN (lastPage - s.startPage) * artworksPerPage + lastPageWorkCount
               ELSE (s.endPage - s.startPage + 1) * artworksPerPage
  IN IF series = 0 THEN Throws(s, "Error", <<s.page>>)
     ELSE Yields([s EXCEPT !.total = total, !.yieldedId = @ + series], "yielded",
                 Batch(total, s.page, series, s.page), <<s.page>>)
SeriesStep(s) ==
  IF s.at = "start"
  THEN LET r == s.range
           startPage == IF r.given THEN r.start ELSE 1
           endPage == IF r.given THEN r.end ELSE 0
       IN SeriesRequest([s EXCEPT !.startPage = startPage, !.endPage = endPage,
                                  !.page = startPage])
  ELSE IF s.yieldedId < s.total
  THEN SeriesRequest([s EXCEPT !.page = @ + 1])
  ELSE Returns(s, <<>>)

\* generator.next() on a sequence that has not finished
SeqNext(kind, step) ==
  /\ seq.kind = kind
  /\ seq.at \notin {"done", "error"}
  /\ seq' = step.seq
  /\ out' = IF step.yields THEN Append(out, step.batch) ELSE out
  /\ fetched' = fetched \o step.pages
  /\ ev' = Event("next", <<>>, kind)
  /\ UNCHANGED <<stores, tasks, signals, listener, waitState, filterInGen, pc,
                 avaliable, idx, dlPromise, status429, inflight, nextId, batches,
                 calls, abortCalls, abortArg, result, options, checked, dbVars,
                 srv>>
IllustMangaNext == SeqNext("illustManga", IllustMangaStep(seq))
ChunkNext == SeqNext("chunk", ChunkStep(seq))
FollowLatestNext == SeqNext("followLatest", FollowLatestStep(seq))
SeriesNext == SeqNext("series", SeriesStep(seq))

NoDb ==
  /\ history = [pid \in Pids |-> NoRecord]
  /\ caches = [pid \in Pids |-> NoRecord]
  /\ cachesLoaded = TRUE
  /\ dbQueue = <<>>
  /\ scopes = <<>>
  /\ thrown = "none"
  /\ dbCalls = 0
  /\ added = [pid \in Pids |-> {}]

Init ==
  /\ InitRun
  /\ NoDb
  /\ NoSeq
  /\ enableTagFilter = FALSE
  /\ whitelistTag = {} /\ blacklistTag = {}
  /\ includeFilters = <<"inc1">> /\ excludeFilters = <<>>
  /\ checked = NoCheck

Next ==
  \/ \E fnId \in FnIds, allPages \in BOOLEAN, ps \in 1..MaxPage, pe \in 1..MaxPage :
       ~downloading /\ BatchDownload(fnId, allPages, ps, pe)
  \/ \E ni \in 0..1, nu \in 0..1, na \in 0..MaxIds, total \in 0..(MaxIds + 1) :
       GenYield(ni, nu, na, total)
  \/ GenDone
  \/ GenThrows
  \/ TimerFires
  \/ ResumeResolved
  \/ ResumeByAbort
  \/ \E o \in Outcomes, f \in FilterAnswers : ParseSettles(o, f)
  \/ \E v \in BOOLEAN : FilterSettles(v)
  \/ \E t \in inflight, o \in Outcomes : TaskSettles(t, o)
  \/ Abort

Spec == Init /\ [][Next]_vars

\* the first run of a session: batchDownload is called once, everything else
\* as in Next
NextRun ==
  \/ \E fnId \in FnIds, allPages \in BOOLEAN, ps \in 1..MaxPage, pe \in 1..MaxPage :
       signals = <<>> /\ BatchDownload(fnId, allPages, ps, pe)
  \/ \E ni \in 0..1, nu \in 0..1, na \in 0..MaxIds, total \in 0..(MaxIds + 1) :
       GenYield(ni, nu, na, total)
  \/ GenDone
  \/ GenThrows
  \/ TimerFires
  \/ ResumeResolved
  \/ ResumeByAbort
  \/ \E o \in Outcomes, f \in FilterAnswers : ParseSettles(o, f)
  \/ \E v \in BOOLEAN : FilterSettles(v)
  \/ \E t \in inflight, o \in Outcomes : TaskSettles(t, o)
  \/ Abort

SpecRun == Init /\ [][NextRun]_vars

\* the discovery sequence, the timers and every parse, filter evaluation and
\* download task eventually settle; microtasks run
GenSettles ==
  \/ \E ni \in 0..1, nu \in 0..1, na \in 0..MaxIds, total \in 0..(MaxIds + 1) :
       GenYield(ni, nu, na, total)
  \/ GenDone
  \/ GenThrows
Resumes == TimerFires \/ ResumeResolved \/ ResumeByAbort
MetaSettles ==
  \/ \E o \in Outcomes, f \in FilterAnswers : ParseSettles(o, f)
  \/ \E v \in BOOLEAN : FilterSettles(v)
DownloadSettles == \E t \in inflight, o \in Outcomes : TaskSettles(t, o)

FairSpec ==
  /\ Spec
  /\ WF_vars(GenSettles) /\ WF_vars(Resumes)
  /\ WF_vars(MetaSettles) /\ WF_vars(DownloadSettles)

\* one run over a single batch of up to MaxBurst avaliable ids with an exact
\* total, in which every parse and every download succeeds
NextBurst ==
  \/ \E fnId \in ConfiguredFnIds : ~downloading /\ BatchDownload(fnId, TRUE, 1, 1)
  \/ \E na \in 1..MaxBurst : GenYieldIn(0, 0, na, na, MaxBurst, 1)
  \/ GenDone
  \/ TimerFires
  \/ ResumeResolved
  \/ \E f \in {"pending", "valid"} : ParseSettles("ok", f)
  \/ FilterSettles(TRUE)
  \/ \E t \in inflight : TaskSettles(t, "ok")

SpecBurst == Init /\ [][NextBurst]_vars

\* a run that reaches the concurrency cap: one batch of up to MaxCap avaliable
\* ids that reports MaxCap as total, a parse succeeds or is rejected with
\* status 429, every artwork passes the filter, every download succeeds,
\* abort() at any time
NextCap ==
  \/ \E fnId \in ConfiguredFnIds : ~downloading /\ BatchDownload(fnId, TRUE, 1, 1)
  \/ \E na \in 0..MaxCap : GenYieldIn(0, 0, na, MaxCap, MaxCap, 1)
  \/ GenDone
  \/ TimerFires
  \/ ResumeResolved
  \/ ResumeByAbort
  \/ \E o \in {"ok", "RequestError429"}, f \in {"pending", "valid"} : ParseSettles(o, f)
  \/ FilterSettles(TRUE)
  \/ \E t \in inflight : TaskSettles(t, "ok")
  \/ Abort

SpecCap == Init /\ [][NextCap]_vars

\* ------------------------------------------- runs with the filter pipeline
\* the handler of selectedFilters.subscribe; given is FALSE for a null value
SelectFilters(given, selected) ==
  /\ LET sel == SelectedFilters(selected)
     IN IF given
        THEN includeFilters' = sel.include /\ excludeFilters' = sel.exclude
        ELSE UNCHANGED <<includeFilters, excludeFilters>>
  /\ UNCHANGED <<ev, stores, tasks, signals, listener, waitState, filterInGen, pc,
                 avaliable, idx, dlPromise, status429, inflight, nextId, batches,
                 calls, abortCalls, abortArg, result, enableTagFilter,
                 whitelistTag, blacklistTag, checked, dbVars,
                 seqVars>>

\* the handlers of blacklistTag.subscribe and whitelistTag.subscribe
SetBlacklistTag(val) ==
  /\ blacklistTag' = val
  /\ UNCHANGED <<ev, stores, tasks, signals, listener, waitState, filterInGen, pc,
                 avaliable, idx, dlPromise, status429, inflight, nextId, batches,
                 calls, abortCalls, abortArg, result, enableTagFilter,
                 whitelistTag, includeFilters, excludeFilters, checked, dbVars,
                 seqVars>>
SetWhitelistTag(val) ==
  /\ whitelistTag' = val
  /\ UNCHANGED <<ev, stores, tasks, signals, listener, waitState, filterInGen, pc,
                 avaliable, idx, dlPromise, status429, inflight, nextId, batches,
                 calls, abortCalls, abortArg, result, enableTagFilter,
                 blacklistTag, includeFilters, excludeFilters, checked, dbVars,
                 seqVars>>

\* a call of checkValidity goes on to await the promise of the next
\* predicate: nothing but its record changes
CheckValidityWaits(chk, type) ==
  /\ checked' = chk
  /\ ev' = Event(type, <<>>, "pending")
  /\ UNCHANGED <<stores, tasks, signals, listener, waitState, filterInGen, pc,
                 avaliable, idx, dlPromise, status429, inflight, nextId, batches,
                 calls, abortCalls, abortArg, result, options, dbVars, srv, out,
                 fetched>>

\* deferred filtering: the parse resolves with meta and the loop calls
\* checkValidity(artworkMeta)
ParseChecks(meta, waits) ==
  LET chk == CheckValidity(meta, waits)
  IN ParseSettlesIn("ok",
                    IF chk.loop # "done" THEN "pending"
                    ELSE IF chk.result THEN "valid" ELSE "invalid",
                    chk)

\* mutant of CheckValiditySettles: isValid is not tested
CheckValiditySettlesUntested(waits) ==
  /\ downloading /\ pc = "filter" /\ checked.loop # "done"
  /\ LET chk == CheckValidityResumes(checked, waits)
     IN IF chk.loop = "done"
        THEN FilterOutcome(TRUE, chk)
        ELSE CheckValidityWaits(chk, "predicate") /\ UNCHANGED seq

\* deferred filtering: the promise that checkValidity(artworkMeta) awaits
\* settles
CheckValiditySettles(waits) ==
  /\ downloading /\ pc = "filter" /\ checked.loop # "done"
  /\ LET chk == CheckValidityResumes(checked, waits)
     IN IF chk.loop = "done"
        THEN FilterOutcome(chk.result, chk)
        ELSE CheckValidityWaits(chk, "predicate") /\ UNCHANGED seq

\* ---- inline filtering through illustMangaGenerator
\* a work of the response: masked, or with the metadata handed to
\* checkValidity
RunWorks ==
  {[isMasked |-> TRUE, meta |-> NoCheck.meta]}
    \cup {[isMasked |-> FALSE, meta |-> meta] : meta \in RunMetas}

\* the ids of a chunk of n works, the first of which is fresh id first:
\* sorted in descending order
ChunkIds(first, n) == [k \in 1..n |-> IdStr(first + n - k)]

\* the locals of illustMangaGenerator in the for-loop over the n works of
\* the chunk: at work k ("check": inside checkValidity(work)) or past the
\* loop ("yield")
WorkLoop(first, n) ==
  [kind |-> "illustManga", at |-> "check", first |-> first, n |-> n, k |-> 1,
   avaliable |-> <<>>, invalid |-> <<>>, unavaliable |-> <<>>]

\* isValid ? avaliable.push(id) : invalid.push(id), then i++
Sorted(g, isValid) ==
  LET id == ChunkIds(g.first, g.n)[g.k]
  IN [g EXCEPT !.k = @ + 1,
               !.avaliable = IF isValid THEN Append(@, id) ELSE @,
               !.invalid = IF isValid THEN @ ELSE Append(@, id)]

\* the for-loop from work g.k on, until it ends or checkValidity awaits a
\* pending promise: the locals and the record of the last call
RECURSIVE WorksFrom(_, _, _, _)
WorksFrom(g, works, chk, waits) ==
  IF g.k > g.n THEN [gen |-> [g EXCEPT !.at = "yield"], chk |-> chk]
  ELSE IF works[g.k].isMasked
  THEN WorksFrom([g EXCEPT !.k = @ + 1,
                           !.unavaliable = Append(@, ChunkIds(g.first, g.n)[g.k])],
                 works, chk, waits)
  ELSE LET c == CheckValidity(works[g.k].meta, waits)
       IN IF c.loop # "done" THEN [gen |-> g, chk |-> c]
          ELSE WorksFrom(Sorted(g, c.result), works, c, waits)

\* the generator has gone as far as r: it yields the batch to the loop that
\* awaits it, or rests inside checkValidity; a generator whose run has ended
\* goes on alone
GenGoesOn(r, maxBatches) ==
  IF r.gen.at = "yield" /\ downloading /\ pc = "pull"
  THEN GenYieldLists(r.gen.invalid, r.gen.unavaliable, r.gen.avaliable, r.gen.n,
                     maxBatches, r.chk, r.gen)
  ELSE CheckValidityWaits(r.chk, "works") /\ seq' = r.gen

\* inline filtering: the response with the n works of the chunk arrives; n
\* is selectedIds.length, the total of the batch. The response answers the
\* request of a generator.next() call that has yielded no batch yet, whether
\* or not the run still waits for it: the generator?.return() in the catch
\* of batchDownload is only queued behind the pending await, so after
\* abort() the generator still sorts, runs the loop, and ends at its yield
GenChecks(n, works, waits, maxIds, maxBatches) ==
  /\ ~Runnable
  /\ filterInGen /\ seq.kind = "none" /\ genCalls > batches
  /\ batches < maxBatches
  /\ nextId + n - 1 <= maxIds
  /\ GenGoesOn(WorksFrom(WorkLoop(nextId, n), works, checked, waits), maxBatches)

\* inline filtering: the promise that checkValidity(work) awaits settles
GenCheckSettles(works, waits, maxBatches) ==
  /\ ~Runnable
  /\ seq.kind = "illustManga" /\ seq.at = "check" /\ checked.loop # "done"
  /\ LET c == CheckValidityResumes(checked, waits)
     IN IF c.loop # "done"
        THEN CheckValidityWaits(c, "works") /\ UNCHANGED seq
        ELSE GenGoesOn(WorksFrom(Sorted(seq, c.result), works, c, waits), maxBatches)

\* a call of checkValidity, by the discovery sequence or by the loop
CheckValidityCall(meta, waits) ==
  /\ ~checked.called
  /\ CheckValidityWaits([CheckValidity(meta, waits) EXCEPT !.opts = options],
                        "checkValidity")
  /\ UNCHANGED seq

\* the promise that the call awaits settles
CheckValidityGoesOn(waits) ==
  /\ checked.called /\ checked.loop # "done"
  /\ CheckValidityWaits(CheckValidityResumes(checked, waits), "checkValidity")
  /\ UNCHANGED seq

\* the state after construction: no tag lists, no predicate selected
InitFilter ==
  /\ InitRun
  /\ enableTagFilter \in BOOLEAN
  /\ whitelistTag = {} /\ blacklistTag = {}
  /\ includeFilters = <<>> /\ excludeFilters = <<>>
  /\ checked = NoCheck
  /\ NoDb
  /\ NoSeq

\* the values the stores are set to in SpecFilter
RunSelections == {<<>>, <<"inc1">>, <<"exc1">>, <<"exc1", "inc1">>}
RunWaits == {{}, FilterIds}

\* one run and the option stores, set before or during it: every parse and
\* every download succeeds; with deferred filtering the batches report the
\* number of ids found so far as total; with inline filtering abort() may be
\* called while the request of the generator is pending, and the generator
\* then outlives the run
NextFilter ==
  \/ \E selected \in RunSelections : SelectFilters(TRUE, selected)
  \/ \E val \in {{}, {"b"}} : SetBlacklistTag(val)
  \/ \E val \in {{}, {"a"}} : SetWhitelistTag(val)
  \/ \E fnId \in ConfiguredFnIds : signals = <<>> /\ BatchDownload(fnId, TRUE, 1, 1)
  \/ \E na \in 1..MaxIds :
       ~filterInGen /\ GenYieldIn(0, 0, na, nextId + na - 1, MaxIds, MaxBatches)
  \/ \E n \in 1..MaxIds, waits \in RunWaits :
       \E works \in [1..n -> RunWorks] : GenChecks(n, works, waits, MaxIds, MaxBatches)
  \/ /\ seq.kind = "illustManga" /\ seq.at = "check"
     /\ \E waits \in RunWaits, works \in [seq.k + 1..seq.n -> RunWorks] :
          GenCheckSettles(works, waits, MaxBatches)
  \/ (filterInGen => seq.kind = "illustManga" /\ seq.at = "yield") /\ GenDone
  \/ filterInGen /\ pc = "pull" /\ seq.kind = "none" /\ Abort
  \/ ResumeByAbort
  \/ TimerFires
  \/ ResumeResolved
  \/ \E meta \in RunMetas, waits \in RunWaits : ParseChecks(meta, waits)
  \/ \E waits \in RunWaits : CheckValiditySettles(waits)
  \/ \E t \in inflight : TaskSettles(t, "ok")

SpecFilter == InitFilter /\ [][NextFilter]_vars

\* checkValidity alone, on every metadata under every setting of the
\* options: checkValidity is called once, the options are set before the
\* call and while it awaits a predicate
NextCheck ==
  \/ \E given \in BOOLEAN, selected \in Selections :
       (~checked.called \/ checked.loop # "done") /\ SelectFilters(given, selected)
  \/ \E val \in SUBSET Tags : ~checked.called /\ SetBlacklistTag(val)
  \/ \E val \in SUBSET Tags : ~checked.called /\ SetWhitelistTag(val)
  \/ \E meta \in Metas, waits \in {{}, {"inc1"}} : CheckValidityCall(meta, waits)
  \/ \E waits \in {{}, {"inc1"}} : CheckValidityGoesOn(waits)

SpecCheck == InitFilter /\ [][NextCheck]_vars

\* ------------------------------------------------ the history store at work
\* a transaction on the table that has not finished
Tx(op, pid, page, datas) ==
  [op |-> op, pid |-> pid, page |-> page, datas |-> datas, phase |-> "get",
   item |-> NoRecord]
LoadTx == Tx("load", 0, 0, <<>>)

\* the orchestrator, the filter options and the discovery sequences, which
\* the store does not touch
runVars == <<stores, tasks, signals, listener, waitState, filterInGen, pc,
             avaliable, idx, dlPromise, status429, inflight, nextId, batches,
             calls, abortCalls, abortArg, result, options, checked, seqVars>>

\* a row for every work id of datas, the later entry winning
RECURSIVE PutAll(_, _, _)
PutAll(table, datas, i) ==
  IF i > Len(datas) THEN table
  ELSE PutAll([table EXCEPT ![datas[i].pid] = datas[i].rec], datas, i + 1)

\* add(historyData) up to this.transaction(...): paged is FALSE when
\* historyData.page is undefined. The scope function is not run by the call:
\* it waits in scopes for a microtask of the calling task, so the table calls
\* that follow in the same task create their transactions first
Add(pid, paged, page) ==
  /\ dbCalls' = dbCalls + 1
  /\ ev' = Event("add", <<pid, IF paged THEN page ELSE Undefined>>,
                 IF paged THEN "page" ELSE "full")
  /\ UNCHANGED <<runVars, history, caches, cachesLoaded, dbQueue, added>>
  /\ IF ThrowIfInvalidNumber(pid)
     THEN thrown' = "InvalidNumber" /\ UNCHANGED scopes
     ELSE /\ thrown' = "none"
          /\ scopes' = Append(scopes, [pid |-> pid.val, paged |-> paged,
                                       page |-> page])

\* mutant of AddScope: the whole-work branch leaves this.caches alone
AddScopeNoMirror ==
  /\ scopes # <<>>
  /\ LET s == Head(scopes)
     IN /\ scopes' = Tail(scopes)
        /\ ev' = Event("scope", <<JsNum(s.pid), IF s.paged THEN s.page ELSE Undefined>>,
                       IF s.paged THEN "page" ELSE "full")
        /\ UNCHANGED <<runVars, history, cachesLoaded, dbCalls>>
        /\ IF s.paged
           THEN IF ThrowIfInvalidNumber(s.page)
                THEN thrown' = "InvalidNumber" /\ UNCHANGED <<caches, dbQueue, added>>
                ELSE /\ dbQueue' = Append(dbQueue, Tx("add", s.pid, s.page.val, <<>>))
                     /\ added' = [added EXCEPT ![s.pid] = @ \cup {s.page.val}]
                     /\ thrown' = "none"
                     /\ UNCHANGED caches
           ELSE IF ~cachesLoaded
           THEN thrown' = "TypeError" /\ UNCHANGED <<caches, dbQueue, added>>
           ELSE /\ dbQueue' = Append(dbQueue, Tx("put", s.pid, 0, <<>>))
                /\ thrown' = "none"
                /\ UNCHANGED <<caches, added>>

\* the scope function of the oldest add that waits starts: the transaction
\* is created and the function runs up to its first await
AddScope ==
  /\ scopes # <<>>
  /\ LET s == Head(scopes)
     IN /\ scopes' = Tail(scopes)
        /\ ev' = Event("scope", <<JsNum(s.pid), IF s.paged THEN s.page ELSE Undefined>>,
                       IF s.paged THEN "page" ELSE "full")
        /\ UNCHANGED <<runVars, history, cachesLoaded, dbCalls>>
        /\ IF s.paged
           THEN IF ThrowIfInvalidNumber(s.page)
                THEN \* the scope function throws before any request
                     thrown' = "InvalidNumber" /\ UNCHANGED <<caches, dbQueue, added>>
                ELSE \* await this.history.get(pid)
                     /\ dbQueue' = Append(dbQueue, Tx("add", s.pid, s.page.val, <<>>))
                     /\ added' = [added EXCEPT ![s.pid] = @ \cup {s.page.val}]
                     /\ thrown' = "none"
                     /\ UNCHANGED caches
           ELSE IF ~cachesLoaded
           THEN \* this.caches.set on undefined: the transaction is aborted
                \* and the put it has requested is undone
                thrown' = "TypeError" /\ UNCHANGED <<caches, dbQueue, added>>
           ELSE \* this.history.put(historyData); this.caches.set(pid, null)
                /\ caches' = [caches EXCEPT ![s.pid] = Full]
                /\ dbQueue' = Append(dbQueue, Tx("put", s.pid, 0, <<>>))
                /\ thrown' = "none"
                /\ UNCHANGED added

\* Map.get and Table.get for a work id: no entry for an id never written
Entry(map, pid) == IF pid \in Pids THEN map[pid] ELSE NoRecord

\* has(pid): the conversion of a string, the check, and the answer of
\* this.caches; without this.caches it awaits this.history.get(pid)
HasCall(pid) ==
  /\ dbCalls' = dbCalls + 1
  /\ UNCHANGED <<runVars, history, caches, cachesLoaded, scopes, added>>
  /\ IF ThrowIfInvalidNumber(PidOf(pid))
     THEN /\ thrown' = "InvalidNumber"
          /\ ev' = Event("has", <<pid>>, "none")
          /\ UNCHANGED dbQueue
     ELSE /\ thrown' = "none"
          /\ IF cachesLoaded
             THEN /\ ev' = Event("has", <<pid>>,
                                 IF Entry(caches, PidOf(pid).val).kind # "none"
                                 THEN "true" ELSE "false")
                  /\ UNCHANGED dbQueue
             ELSE /\ ev' = Event("has", <<pid>>, "get")
                  /\ dbQueue' = Append(dbQueue, Tx("has", PidOf(pid).val, 0, <<>>))

\* hasPage(pid, page), likewise
HasPageCall(pid, page) ==
  /\ dbCalls' = dbCalls + 1
  /\ UNCHANGED <<runVars, history, caches, cachesLoaded, scopes, added>>
  /\ IF ThrowIfInvalidNumber(PidOf(pid)) \/ ThrowIfInvalidNumber(page)
     THEN /\ thrown' = "InvalidNumber"
          /\ ev' = Event("hasPage", <<pid, page>>, "none")
          /\ UNCHANGED dbQueue
     ELSE /\ thrown' = "none"
          /\ IF cachesLoaded
             THEN /\ ev' = Event("hasPage", <<pid, page>>,
                                 IF PageIn(Entry(caches, PidOf(pid).val), page.val)
                                 THEN "true" ELSE "false")
                  /\ UNCHANGED dbQueue
             ELSE /\ ev' = Event("hasPage", <<pid, page>>, "get")
                  /\ dbQueue' = Append(dbQueue,
                                       Tx("hasPage", PidOf(pid).val, page.val, <<>>))

\* bulkAdd(historyDatas): this.caches is set and the transaction of bulkPut
\* is created by the call
BulkAdd(datas) ==
  /\ dbCalls' = dbCalls + 1
  /\ ev' = Event("bulkAdd", <<>>, "none")
  /\ UNCHANGED <<runVars, history, cachesLoaded, scopes, added>>
  /\ IF ~cachesLoaded /\ Len(datas) > 0
     THEN thrown' = "TypeError" /\ UNCHANGED <<caches, dbQueue>>
     ELSE /\ caches' = IF cachesLoaded THEN PutAll(caches, datas, 1) ELSE caches
          /\ dbQueue' = Append(dbQueue, Tx("bulkPut", 0, 0, datas))
          /\ thrown' = "none"

\* clear(): this.caches is emptied and the transaction of the table clear is
\* created by the call
Clear ==
  /\ dbCalls' = dbCalls + 1
  /\ ev' = Event("clear", <<>>, "none")
  /\ caches' = IF cachesLoaded THEN [pid \in Pids |-> NoRecord] ELSE caches
  /\ dbQueue' = Append(dbQueue, Tx("clear", 0, 0, <<>>))
  /\ thrown' = "none"
  /\ UNCHANGED <<runVars, history, cachesLoaded, scopes, added>>

Remove(q, i) == [j \in 1..(Len(q) - 1) |-> IF j < i THEN q[j] ELSE q[j + 1]]

\* mutant of AddPut: a fully downloaded row is treated as a new download
AddPutNoFullBranch(i, historyItem) ==
  LET tx == dbQueue[i]
      u8arr == UpdatePageArray(tx.page, historyItem.kind = "partial", historyItem.page)
  IN IF ~cachesLoaded
     THEN /\ thrown' = "TypeError"
          /\ dbQueue' = Remove(dbQueue, i)
          /\ UNCHANGED caches
     ELSE /\ dbQueue' = [dbQueue EXCEPT ![i].phase = "put", ![i].item = Partial(u8arr)]
          /\ caches' = [caches EXCEPT ![tx.pid] = Partial(u8arr)]
          /\ UNCHANGED thrown

\* the page-scoped add of transaction i after `await this.history.get(pid)'
\* has answered historyItem: the put is requested, not awaited, and
\* this.caches is set in the same task; tx.item is the row the put will write
AddPut(i, historyItem) ==
  LET tx == dbQueue[i]
      u8arr == UpdatePageArray(tx.page, historyItem.kind = "partial", historyItem.page)
  IN IF historyItem.kind = "full"
     THEN \* fully downloaded: put without page
          /\ dbQueue' = [dbQueue EXCEPT ![i].phase = "put", ![i].item = Full]
          /\ UNCHANGED <<caches, thrown>>
     ELSE IF ~cachesLoaded
     THEN \* this.caches.set on undefined: the transaction is aborted and
          \* the put it has requested is undone
          /\ thrown' = "TypeError"
          /\ dbQueue' = Remove(dbQueue, i)
          /\ UNCHANGED caches
     ELSE /\ dbQueue' = [dbQueue EXCEPT ![i].phase = "put", ![i].item = Partial(u8arr)]
          /\ caches' = [caches EXCEPT ![tx.pid] = Partial(u8arr)]
          /\ UNCHANGED thrown

\* mutant of TxReady: the requests of different calls are served in any order
TxReadyAny(i) == TRUE

\* the transactions on the table run one at a time, in the order they were
\* created: this.transaction('rw', this.history, ...) and the table calls
TxReady(i) == i = 1

\* the database serves the next request of transaction i, in a task of its
\* own: the scope functions that wait run first
DbStep(i) ==
  /\ scopes = <<>>
  /\ i \in 1..Len(dbQueue) /\ TxReady(i)
  /\ LET tx == dbQueue[i]
     IN /\ UNCHANGED <<runVars, dbCalls, scopes, added>>
        /\ CASE tx.op = "load" ->
                  \* this.caches = new Map(datas.map(...))
                  /\ ev' = Event("db", <<tx.pid, tx.page>>, "load")
                  /\ caches' = history
                  /\ cachesLoaded' = TRUE
                  /\ dbQueue' = Remove(dbQueue, i)
                  /\ UNCHANGED <<history, thrown>>
             [] tx.op = "clear" ->
                  /\ ev' = Event("db", <<tx.pid, tx.page>>, "clear")
                  /\ history' = [pid \in Pids |-> NoRecord]
                  /\ dbQueue' = Remove(dbQueue, i)
                  /\ UNCHANGED <<caches, cachesLoaded, thrown>>
             [] tx.op = "bulkPut" ->
                  /\ ev' = Event("db", <<tx.pid, tx.page>>, "bulkPut")
                  /\ history' = PutAll(history, tx.datas, 1)
                  /\ dbQueue' = Remove(dbQueue, i)
                  /\ UNCHANGED <<caches, cachesLoaded, thrown>>
             [] tx.op = "put" ->
                  /\ ev' = Event("db", <<tx.pid, tx.page>>, "put")
                  /\ history' = [history EXCEPT ![tx.pid] = Full]
                  /\ dbQueue' = Remove(dbQueue, i)
                  /\ UNCHANGED <<caches, cachesLoaded, thrown>>
             [] tx.op = "add" /\ tx.phase = "get" ->
                  \* const historyItem = await this.history.get(pid)
                  /\ ev' = Event("db", <<tx.pid, tx.page>>, "get")
                  /\ AddPut(i, history[tx.pid])
                  /\ UNCHANGED <<history, cachesLoaded>>
             [] tx.op = "add" /\ tx.phase = "put" ->
                  \* the put lands and the transaction completes
                  /\ ev' = Event("db", <<tx.pid, tx.page>>, "add")
                  /\ history' = [history EXCEPT ![tx.pid] = tx.item]
                  /\ dbQueue' = Remove(dbQueue, i)
                  /\ UNCHANGED <<caches, cachesLoaded, thrown>>
             [] tx.op = "has" ->
                  \* return !!(await this.history.get(pid))
                  /\ ev' = Event("answer", <<tx.pid>>,
                                 IF Entry(history, tx.pid).kind # "none"
                                 THEN "true" ELSE "false")
                  /\ dbQueue' = Remove(dbQueue, i)
                  /\ UNCHANGED <<history, caches, cachesLoaded, thrown>>
             [] tx.op = "hasPage" ->
                  \* const historyItem = await this.history.get(pid)
                  /\ ev' = Event("answer", <<tx.pid, tx.page>>,
                                 IF PageIn(Entry(history, tx.pid), tx.page)
                                 THEN "true" ELSE "false")
                  /\ dbQueue' = Remove(dbQueue, i)
                  /\ UNCHANGED <<history, caches, cachesLoaded, thrown>>

\* the arguments of the calls
PageArgs == {JsNum(3), JsNum(4), JsNum(10), JsNum(-1)}
PidArgs == {JsNum(pid) : pid \in Pids} \cup {JsNum(-1)}
BulkDatas ==
  { <<[pid |-> 1, rec |-> Full]>>,
    <<[pid |-> 1, rec |-> Partial(<<8>>)], [pid |-> 2, rec |-> Full]>> }

\* the table as an earlier session left it; the constructor has started the
\* load of this.caches
InitDb ==
  /\ InitRun /\ filterInGen
  /\ NoSeq
  /\ enableTagFilter = FALSE
  /\ whitelistTag = {} /\ blacklistTag = {}
  /\ includeFilters = <<>> /\ excludeFilters = <<>>
  /\ checked = NoCheck
  /\ history \in {[pid \in Pids |-> NoRecord],
                  [pid \in Pids |-> IF pid = 1 THEN Full ELSE NoRecord],
                  [pid \in Pids |-> IF pid = 1 THEN Partial(<<8>>) ELSE NoRecord]}
  /\ caches = [pid \in Pids |-> NoRecord]
  /\ cachesLoaded = FALSE
  /\ dbQueue = <<LoadTx>>
  /\ scopes = <<>>
  /\ thrown = "none"
  /\ dbCalls = 0
  /\ added = [pid \in Pids |-> IF history[pid].kind = "partial" THEN {3} ELSE {}]

\* calls of every kind in any task, before and after the load
NextDb ==
  \/ \E pid \in PidArgs, paged \in BOOLEAN, page \in PageArgs :
       dbCalls < MaxDbCalls /\ Add(pid, paged, page)
  \/ \E datas \in BulkDatas : dbCalls < MaxDbCalls /\ BulkAdd(datas)
  \/ dbCalls < MaxDbCalls /\ Clear
  \/ \E pid \in PidArgs : dbCalls < MaxDbCalls /\ HasCall(pid)
  \/ AddScope
  \/ \E i \in 1..Len(dbQueue) : DbStep(i)

SpecDb == InitDb /\ [][NextDb]_vars

\* page-scoped adds on a store that starts with an empty table
InitPages == InitDb /\ \A pid \in Pids : history[pid] = NoRecord
NextPages ==
  \/ \E pid \in PidArgs, page \in PageArgs :
       dbCalls < MaxDbCalls /\ Add(pid, TRUE, page)
  \/ AddScope
  \/ \E i \in 1..Len(dbQueue) : DbStep(i)

SpecPages == InitPages /\ [][NextPages]_vars

\* ------------------------------------------------------------------ claims
SeqToSet(q) == {q[i] : i \in 1..Len(q)}
OwnInFlight == {t \in inflight : t.run = Len(signals)}
ListSum == Size(successd) + Size(failed) + Size(excluded)

\* C1: during a run, the number of download tasks dispatched and not yet
\* settled is at most 5.
C1_InFlightAtMostThreshold ==
  downloading => Cardinality(OwnInFlight) <= THRESHOLD

\* C2: when abort() is called during a run, onDownloadAbort receives exactly
\* the task ids of the download tasks still in flight.
C2_AbortReceivesInFlight ==
  (downloading /\ ev.type = "abort" /\ ev.reason = "CancelError")
    => SeqToSet(abortArg) = {t.taskId : t \in OwnInFlight}

\* C3: once abort() has been called during a run, downloadByArtworkId is not
\* called again and no further discovery batch is processed in that run.
C3_NoDispatchAfterAbort ==
  [][(downloading /\ CurAborted) => (dlCalls' = dlCalls /\ batches' = batches)]_vars

\* C4: from the moment a run ends Completed until the next run starts,
\* artworkCount equals the sum of the lengths of the three lists.
C4_CompletedCountEqualsSum ==
  result = "completed" => artworkCount = ListSum

\* C5: every run eventually reaches a terminal state with downloading false.
C5_RunTerminates == downloading ~> ~downloading

\* C6: abort() after a completed run changes no counter, list, flag or log
\* entry and does not invoke onDownloadAbort.
C6_AbortAfterCompletedIsNoop ==
  [][(result = "completed" /\ ev'.type = "abort")
       => UNCHANGED <<artworkCount, successd, failed, excluded, downloading, log,
                      abortCalls, abortArg>>]_vars

\* C7: when abort() arrives while the orchestrator is suspended in a batch
\* pull, a politeness delay, the concurrency-cap wait or the cooldown, the
\* completion promise is rejected and the very next step ends the run with
\* the CancelError log entry and downloading false; no timer expires and no
\* in-flight task settles before that.
AbortedWhileSuspended ==
  /\ downloading /\ pc \in RaceStates
  /\ ev.type = "abort" /\ ev.reason = "CancelError"
C7_AbortEndsSuspendedRun ==
  /\ [](AbortedWhileSuspended => (waitState = "rejected" /\ ENABLED ResumeByAbort))
  /\ [][AbortedWhileSuspended
          => /\ ~downloading'
             /\ log' = ErrorLog("CancelError")
             /\ result' = "CancelError"
             /\ inflight' = inflight
             /\ ev' = ev]_vars
C7_Witness ==
  /\ ~downloading /\ result = "CancelError" /\ log = ErrorLog("CancelError")
  /\ ev.type = "abort"
  /\ Len(tasks) = THRESHOLD /\ Cardinality(OwnInFlight) = THRESHOLD

\* C8: after abort() has been called during a run, the success list and the
\* failed list do not change until the next run starts.
C8_ListsFrozenAfterAbort ==
  [][(CurAborted /\ CurReason = "CancelError" /\ Len(signals') = Len(signals))
       => (successd' = successd /\ failed' = failed)]_vars

\* C9: batchDownload with an unknown discovery function id, or with an end
\* page below the start page while `all pages' is off, ends errored at once:
\* Error log entry, downloading false, no batch pulled, nothing parsed or
\* downloaded.
BadSetup(in) ==
  \/ in.fnId \notin ConfiguredFnIds
  \/ ~in.allPages /\ in.pageEnd < in.pageStart
C9_SetupErrorEndsRun ==
  (ev.type = "batchDownload" /\ BadSetup(ev.id))
    => /\ ~downloading
       /\ log.type = "Error"
       /\ result \notin {"none", "completed"}
       /\ genCalls = 0 /\ parseCalls = 0 /\ dlCalls = 0
       /\ batches = 0
C9_Witness ==
  /\ ev.type = "batchDownload"
  /\ ev.id.fnId \in ConfiguredFnIds /\ ~ev.id.allPages /\ ev.id.pageEnd < ev.id.pageStart
  /\ ~downloading /\ log = ErrorLog("End page must not be less than the start page.")

\* C10: when parseMetaByArtworkId or downloadByArtworkId rejects for an id in
\* a run that was not cancelled, the id is appended once to failed with the
\* rejection reason, and the run goes on: after a parse failure with the next
\* id of the batch, or with the next pull after the last id; after a download
\* failure the orchestrator stays where it was.
Occurrences(f, id) == Cardinality({i \in 1..Len(f) : f[i].id = id})
C10_FailureIsLocal ==
  [][/\ (pc = "parse" /\ ev'.type = "parseFail" /\ ~CurAborted)
          => /\ failed' = Append(failed, FailedItem(avaliable[idx], ev'.reason))
             /\ Occurrences(failed', avaliable[idx]) = 1
             /\ downloading' /\ ~CurAborted'
             /\ IF idx < Len(avaliable)
                THEN avaliable' = avaliable /\ idx' = idx + 1
                     /\ pc' \in {"parse", "cooldown"}
                ELSE pc' = "pull" /\ genCalls' = genCalls + 1
     /\ (inflight' # inflight /\ ev'.type = "taskFail")
          => \A t \in inflight \ inflight' :
               ~signals[t.run].aborted
                 => /\ failed' = Append(failed, FailedItem(t.id, ev'.reason))
                    /\ Occurrences(failed', t.id) = 1
                    /\ pc' = pc /\ downloading' = downloading
                    /\ signals' = signals /\ avaliable' = avaliable /\ idx' = idx
    ]_vars
C10_Witness ==
  /\ downloading /\ ~CurAborted
  /\ pc = "parse" /\ idx = 2
  /\ ev.type = "parseFail" /\ ev.id = avaliable[1]
  /\ failed # <<>> /\ failed[Len(failed)] = FailedItem(avaliable[1], ev.reason)

\* C11: between a recorded failure with status 429 and the next call of
\* downloadByArtworkId of the same run the cooldown wait is performed: while
\* the flag set by the failed handler is still set, no download is dispatched.
C11_CooldownBeforeDispatch ==
  [][(downloading /\ status429) => dlCalls' = dlCalls]_vars

\* C12: after a run has ended, artworkCount and the success, failed and
\* excluded lists keep their values until batchDownload is called again, and
\* that call sets artworkCount to null and empties the three lists and the
\* task list.
C12_FinalValuesKeptUntilReset ==
  [][/\ (~downloading /\ result # "none" /\ Len(signals') = Len(signals))
          => /\ artworkCount' = artworkCount
             /\ successd' = successd /\ failed' = failed /\ excluded' = excluded
     /\ (Len(signals') > Len(signals))
          => /\ artworkCount' = Null
             /\ successd' = Empty /\ failed' = Empty /\ excluded' = Empty
             /\ tasks' = <<>>
    ]_vars

\* C13: in a run in which no include predicate is selected,
\* downloadByArtworkId is never called, with inline and with deferred
\* filtering, whatever the tag lists and the exclude predicates are.
C13_NoIncludeNoDownload ==
  [](Len(includeFilters) = 0)
    => [](dlCalls = 0 /\ tasks = <<>> /\ inflight = {} /\ successd = Empty)
C13_Witness ==
  /\ Len(includeFilters) = 0 /\ Len(excludeFilters) > 0
  /\ ~filterInGen
  /\ result = "completed" /\ checked.called
  /\ checked.meta.verdict["inc1"] = "true"
  /\ Size(excluded) = 2 /\ parseCalls = 2 /\ dlCalls = 0

\* C14: with tag filtering enabled and a non-empty deny list, checkValidity
\* rejects every metadata whose tags contain a deny-list tag.
C14_DenyTagRejects ==
  (/\ checked.called /\ enableTagFilter /\ blacklistTag # {}
   /\ checked.meta.hasTags /\ checked.meta.tags \cap blacklistTag # {})
    => ~checked.result

\* C15: when the tag step passes, an include predicate is selected and no
\* predicate throws, checkValidity accepts exactly the metadata that no
\* selected exclude predicate matches and some selected include predicate
\* matches; after an exclude match no include predicate is evaluated.
\* Stated for the calls that end with the predicates selected with which
\* they began.
ExcludeMatches(meta) ==
  \E i \in 1..Len(excludeFilters) : meta.verdict[excludeFilters[i]] = "true"
IncludeMatches(meta) ==
  \E i \in 1..Len(includeFilters) : meta.verdict[includeFilters[i]] = "true"
C15_ExcludeThenInclude ==
  (/\ checked.called /\ checked.loop = "done" /\ ~checked.threw
   /\ ~enableTagFilter \/ FilterTag(checked.meta)
   /\ Len(includeFilters) > 0
   /\ SeqToSet(checked.opts[4]) = SeqToSet(includeFilters)
   /\ SeqToSet(checked.opts[5]) = SeqToSet(excludeFilters))
    => /\ checked.result
            <=> (~ExcludeMatches(checked.meta) /\ IncludeMatches(checked.meta))
       /\ ExcludeMatches(checked.meta)
            => \A i \in 1..Len(checked.evaluated) :
                 \A j \in 1..Len(includeFilters) :
                   checked.evaluated[i] # includeFilters[j]

\* C16: when a selected predicate throws while an item is evaluated,
\* checkValidity resolves with false; with deferred filtering the id is
\* added to excluded, nothing is dispatched for it, the run is not aborted
\* and the loop goes on with the next id or the next pull.
C16_ThrowingPredicateExcludes ==
  /\ []((checked.called /\ checked.threw) => ~checked.result)
  /\ [][(pc \in {"parse", "filter"} /\ ev'.type = "filter" /\ ev' # ev
           /\ checked'.threw)
          => /\ excluded' = Push(excluded, avaliable[idx])
             /\ dlCalls' = dlCalls /\ inflight' = inflight
             /\ downloading' /\ ~CurAborted'
             /\ IF idx < Len(avaliable)
                THEN avaliable' = avaliable /\ idx' = idx + 1 /\ pc' = "parse"
                ELSE pc' = "pull" /\ genCalls' = genCalls + 1]_vars
C16_Witness ==
  /\ downloading /\ ~CurAborted /\ ~filterInGen
  /\ checked.called /\ checked.threw /\ ev.type = "filter"
  /\ Len(checked.evaluated) = 2
  /\ pc = "parse" /\ idx = 2
  /\ Size(excluded) = 1 /\ excluded[1] = avaliable[1]

\* no call is at work on the store and this.caches is loaded
AtRest == cachesLoaded /\ dbQueue = <<>> /\ scopes = <<>>

\* C17: whenever the load of the mirror has finished and no call is still at
\* work, the mirror holds exactly the work ids of the table, null for a
\* fully downloaded work and the same bit array for a partial one, and
\* has(workId) is true exactly when the table has a row for workId.
C17_MirrorEqualsTable ==
  AtRest
    => /\ caches = history
       /\ \A pid \in Pids : Has(pid) <=> history[pid].kind # "none"

\* transaction of a page-scoped add of page p for work pid in one of phases
AddAt(pid, p, phases) ==
  \E i \in 1..Len(dbQueue) :
    /\ dbQueue[i].op = "add" /\ dbQueue[i].pid = pid /\ dbQueue[i].page = p
    /\ dbQueue[i].phase \in phases

\* C18: page-scoped adds for the same work id that overlap lose no update:
\* a page handed to add is set in the mirror from the moment its add has
\* read the row, and in the table from the moment its add has completed,
\* whatever other adds were started in between.
C18_NoLostPage ==
  \A pid \in Pids : \A p \in added[pid] :
    /\ ~AddAt(pid, p, {"get"}) => PageIn(caches[pid], p)
    /\ ~AddAt(pid, p, {"get", "put"}) => PageIn(history[pid], p) /\ HasPage(pid, p)
C18_Witness ==
  /\ cachesLoaded /\ dbCalls = 2 /\ Len(dbQueue) = 2
  /\ AddAt(1, 3, {"put"}) /\ AddAt(1, 10, {"get"})
  /\ added[1] = {3, 10}
  /\ caches[1] = Partial(<<8>>) /\ history[1] = NoRecord

\* C19: from a store without a row for a work, hasPage is never true for a
\* page that was not added, and once the page-scoped adds have completed it
\* is true for exactly the pages added, false also for pages whose byte lies
\* beyond the bit array and for a work without a row.
QueryPages == 0..MaxQueryPage
C19_HasPageIsPagesAdded ==
  \A pid \in Pids :
    /\ \A q \in QueryPages :
         (HasPage(pid, q) \/ PageIn(history[pid], q)) => q \in added[pid]
    /\ AtRest
         => /\ \A q \in QueryPages : HasPage(pid, q) <=> q \in added[pid]
            /\ \A q \in QueryPages : PageIn(history[pid], q) <=> q \in added[pid]
            /\ history[pid].kind = "none" <=> added[pid] = {}
C19_Witness ==
  /\ AtRest
  /\ added[1] = {3, 4} /\ Len(history[1].page) = 1
  /\ HasPage(1, 3) /\ HasPage(1, 4) /\ ~HasPage(1, 9) /\ ~HasPage(1, 5)
  /\ history[2].kind = "none" /\ ~HasPage(2, 3)

\* C20: a page-scoped add on a partial row grows the bit array only when the
\* byte of the new page lies beyond it, keeps every bit that was set and sets
\* the new one; once the adds have completed the length of the array is
\* floor(maxPage / 8) + 1 for the largest page added, and it is never longer.
MaxOf(S) == CHOOSE x \in S : \A y \in S : y <= x
C20_GrowthKeepsBits ==
  /\ [](\A pid \in Pids :
          history[pid].kind = "partial"
            => /\ Len(history[pid].page) <= (MaxOf(added[pid]) \div 8) + 1
               /\ AtRest => Len(history[pid].page) = (MaxOf(added[pid]) \div 8) + 1)
  /\ [][\A pid \in Pids :
          (history[pid].kind = "partial" /\ history'[pid] # history[pid])
            => /\ history'[pid].kind = "partial"
               /\ Len(history'[pid].page) >= Len(history[pid].page)
               /\ (Len(history'[pid].page) > Len(history[pid].page))
                    => (ev'.id[2] \div 8) + 1 = Len(history'[pid].page)
               /\ \A q \in QueryPages :
                    PageIn(history'[pid], q)
                      <=> (PageIn(history[pid], q) \/ q = ev'.id[2])]_vars
C20_Witness ==
  /\ AtRest
  /\ ev.type = "db" /\ ev.reason = "add" /\ ev.id = <<1, 10>>
  /\ history[1] = Partial(<<8, 4>>) /\ caches[1] = Partial(<<8, 4>>)

\* page-scoped and whole-work adds on a store that starts with an empty
\* table, called in any task
NextAdds ==
  \/ \E pid \in PidArgs, paged \in BOOLEAN, page \in PageArgs :
       dbCalls < MaxDbCalls /\ Add(pid, paged, page)
  \/ AddScope
  \/ \E i \in 1..Len(dbQueue) : DbStep(i)

SpecAdds == InitPages /\ [][NextAdds]_vars

\* the same, but a whole-work add is called only when the calls before it
\* have completed; page-scoped adds and the calls after it are free
NextRecorded ==
  \/ \E pid \in PidArgs, page \in PageArgs :
       dbCalls < MaxDbCalls /\ Add(pid, TRUE, page)
  \/ \E pid \in PidArgs :
       dbCalls < MaxDbCalls /\ AtRest /\ Add(pid, FALSE, Undefined)
  \/ AddScope
  \/ \E i \in 1..Len(dbQueue) : DbStep(i)

SpecRecorded == InitPages /\ [][NextRecorded]_vars

\* C21: when add(w) without a page, called after the page-scoped adds for w
\* were recorded, has completed, the row of w has no page array, the mirror
\* holds null for w and hasPage(w, q) is true for every page q; completing
\* add(w) on such a record changes nothing.
C21_FullAddMakesFull ==
  [][\A w \in Pids :
       (ev'.type = "db" /\ ev'.reason = "put" /\ ev'.id[1] = w)
         => /\ history'[w] = Full /\ caches'[w] = Full
            /\ \A q \in QueryPages : HasPage(w, q)'
            /\ (history[w] = Full /\ caches[w] = Full)
                 => (history' = history /\ caches' = caches)]_vars
C21_Witness ==
  /\ AtRest
  /\ ev.type = "db" /\ ev.reason = "put" /\ ev.id[1] = 1
  /\ added[1] = {3, 10}
  /\ history[1] = Full /\ caches[1] = Full
  /\ HasPage(1, 3) /\ HasPage(1, 4) /\ HasPage(1, 17)

\* C22: a work recorded as fully downloaded, in the table and in the mirror,
\* stays so under every add: no page array is created in either and
\* hasPage(w, q) stays true for every page q.
C22_FullDominates ==
  [][\A w \in Pids :
       (history[w] = Full /\ caches[w] = Full /\ cachesLoaded)
         => /\ history'[w] = Full /\ caches'[w] = Full
            /\ \A q \in QueryPages : HasPage(w, q)']_vars
C22_Witness ==
  /\ ev.type = "db" /\ ev.reason = "add" /\ ev.id = <<1, 3>>
  /\ AtRest /\ thrown = "none"
  /\ history[1] = Full /\ caches[1] = Full
  /\ HasPage(1, 3) /\ HasPage(1, 4)

\* the calls of add, has and hasPage with values of every kind, on a store
\* that starts with an empty table
ArgValues ==
  {JsNum(1), JsNum(3), JsNum(-1), Fraction, NaN, Unsafe,
   JsStr("1"), JsStr(""), JsStr("abc")}
NextArgs ==
  \/ \E pid \in ArgValues, paged \in BOOLEAN, page \in ArgValues :
       /\ dbCalls < MaxDbCalls
       /\ (ThrowIfInvalidNumber(pid) \/ pid.val \in Pids)
       /\ Add(pid, paged, page)
  \/ \E pid \in ArgValues : dbCalls < MaxDbCalls /\ HasCall(pid)
  \/ \E pid \in ArgValues, page \in ArgValues :
       dbCalls < MaxDbCalls /\ HasPageCall(pid, page)
  \/ AddScope
  \/ \E i \in 1..Len(dbQueue) : DbStep(i)

SpecArgs == InitPages /\ [][NextArgs]_vars

\* a value that is a non-negative safe integer, or a string that is the
\* decimal numeral of one
Numerals == {"1"}
NonNegativeInteger(v) ==
  \/ v.type = "number" /\ v.safe /\ v.val >= 0
  \/ v.type = "string" /\ v.text \in Numerals
\* C23: add, has and hasPage raise an error whenever the work id or the page
\* handed to them is not a non-negative safe integer (add raises for the
\* page when its scope function starts), and an add that fails the check
\* changes neither the table nor the mirror.
C23_InvalidNumberRaises ==
  [][/\ (ev'.type \in {"add", "has", "hasPage"} /\ ~NonNegativeInteger(ev'.id[1]))
          => thrown' = "InvalidNumber"
     /\ ((ev'.type = "scope" /\ ev'.reason = "page") \/ ev'.type = "hasPage")
          /\ ~NonNegativeInteger(ev'.id[2])
          => thrown' = "InvalidNumber"
     /\ (ev'.type \in {"add", "scope"} /\ thrown' = "InvalidNumber")
          => (history' = history /\ caches' = caches /\ dbQueue' = dbQueue)]_vars

\* ------------------------------------------- the discovery sequences alone
\* a sequence is created with a page range the orchestrator accepts (null or
\* start <= end) against some content of the api, then pulled to its end
RangePages == (1..MaxRangePage) \cup {PAGE_LIMIT, PAGE_LIMIT + 1}
Ranges ==
  {NullRange} \cup
  {r \in {Range(s, e) : s \in RangePages, e \in RangePages} : r.start <= r.end}
ItemCounts ==
  {0, 1, ARTWORKS_PER_PAGE, ARTWORKS_PER_PAGE + 1, 2 * ARTWORKS_PER_PAGE + 1}
FeedSizes == {1, FOLLOW_ARTWORKS_PER_PAGE - 1, FOLLOW_ARTWORKS_PER_PAGE}
LongFeed == PAGE_LIMIT + 2
Server(count, perPage, pages, first, second, last, beyond) ==
  [count |-> count, perPage |-> perPage, pages |-> pages, first |-> first,
   second |-> second, last |-> last, beyond |-> beyond]
InitSeq ==
  /\ InitRun /\ filterInGen
  /\ NoDb
  /\ enableTagFilter = FALSE
  /\ whitelistTag = {} /\ blacklistTag = {}
  /\ includeFilters = <<>> /\ excludeFilters = <<>>
  /\ checked = NoCheck
  /\ out = <<>>
  /\ fetched = <<>>
  /\ \E range \in Ranges :
       \/ /\ seq \in {NewSeq("illustManga", range), NewSeq("chunk", range)}
          /\ \E count \in ItemCounts :
               srv = Server(count, 0, 0, 0, 0, 0, "empty")
       \/ /\ seq = NewSeq("series", range)
          /\ \E count \in 0..MaxSeriesWorks, perPage \in 1..MaxSeriesPerPage :
               srv = Server(count, perPage, 0, 0, 0, 0, "empty")
       \/ /\ seq = NewSeq("followLatest", range)
          /\ \E pages \in (0..MaxFeedPages) \cup {LongFeed},
                first \in FeedSizes, second \in FeedSizes, last \in FeedSizes,
                beyond \in {"empty", "dup"} :
               /\ pages <= 1 => first = FOLLOW_ARTWORKS_PER_PAGE
               /\ pages <= 2 => second = FOLLOW_ARTWORKS_PER_PAGE
               /\ pages = 0 => last = FOLLOW_ARTWORKS_PER_PAGE
               /\ srv = Server(0, 0, pages, first, second, last, beyond)
NextSeq ==
  \/ IllustMangaNext
  \/ ChunkNext
  \/ FollowLatestNext
  \/ SeriesNext

SpecSeq == InitSeq /\ [][NextSeq]_vars

\* the page the sequence starts at, and whether it lies beyond the pages of
\* the api that hold works
RequestedStart == IF seq.range.given THEN seq.range.start ELSE 1
StartBeyondResults ==
  CASE seq.kind \in {"illustManga", "chunk"} ->
         (RequestedStart - 1) * ARTWORKS_PER_PAGE >= srv.count
    [] seq.kind = "series" -> (RequestedStart - 1) * srv.perPage >= srv.count
    [] seq.kind = "followLatest" -> RequestedStart > srv.pages
    [] OTHER -> FALSE

\* C24: a discovery sequence whose start page lies beyond the pages that hold
\* results raises an error before it yields a batch.
C24_StartBeyondRaises ==
  StartBeyondResults
    => /\ out = <<>>
       /\ seq.at \in {"start", "error"}

\* C26: within one run of a discovery sequence the totals of successive
\* batches never decrease; illustMangaGenerator, chunkGenerator and
\* seriesGenerator report the same total in every batch.
C26_TotalNeverDecreases ==
  \A i \in 1..Len(out) : \A j \in i..Len(out) :
    /\ out[i].total <= out[j].total
    /\ seq.kind # "followLatest" => out[i].total = out[j].total
C26_Witness ==
  /\ seq.kind = "followLatest" /\ seq.at = "done"
  /\ Len(out) >= 3
  /\ out[1].total < out[2].total

\* the responses to the requests made so far, and whether one of them is a
\* duplicated page: its smallest id is not below those of the pages before
Response(i) == GetFollowLatestWorks(fetched[i])
IsDuplicate(i) == \E j \in 1..(i - 1) : Response(i).min >= Response(j).min
DuplicateFetched == \E i \in 1..Len(fetched) : IsDuplicate(i)
LastGoodPage ==
  LET d == CHOOSE i \in 1..Len(fetched) :
             IsDuplicate(i) /\ \A k \in 1..(i - 1) : ~IsDuplicate(k)
  IN Response(d - 1).src

\* C27: once followLatestGenerator has fetched a duplicated page it fetches
\* no further page, what it yields from then on is the last page that was
\* not a duplicate, and it ends without an error; it fetches at most
\* PAGE_LIMIT pages.
C27_DuplicateStopsFetching ==
  /\ [](seq.kind = "followLatest"
          => /\ Len(fetched) <= PAGE_LIMIT
             /\ DuplicateFetched
                  => /\ seq.at \in {"first", "duplicate", "last", "done"}
                     /\ out # <<>> /\ out[Len(out)].src = LastGoodPage)
  /\ [][(seq.kind = "followLatest" /\ DuplicateFetched)
          => fetched' = fetched]_vars
C27_Witness ==
  /\ seq.kind = "followLatest" /\ seq.at = "done"
  /\ DuplicateFetched /\ Len(fetched) = 4
  /\ Len(out) >= 3 /\ out[Len(out)].src = 3

\* ------------------------------------------- the three lists of one batch
\* a work of a response: its id, isMasked and what checkValidity resolves
\* to for it
Work(id, isMasked, valid) == [id |-> id, isMasked |-> isMasked, valid |-> valid]
Lists(av, inv, un) == [avaliable |-> av, invalid |-> inv, unavaliable |-> un]

\* the loop over the works of a response
RECURSIVE ClassifyWorks(_, _, _)
ClassifyWorks(works, i, lists) ==
  IF i > Len(works) THEN lists
  ELSE LET work == works[i]
       IN ClassifyWorks(works, i + 1,
            IF work.isMasked
            THEN [lists EXCEPT !.unavaliable = Append(@, work.id)]
            ELSE IF work.valid
            THEN [lists EXCEPT !.avaliable = Append(@, work.id)]
            ELSE [lists EXCEPT !.invalid = Append(@, work.id)])

\* ids.filter((id) => !illust.some((item) => +item.id === id)), from index i
RECURSIVE IdDiff(_, _, _)
IdDiff(ids, illust, i) ==
  IF i > Len(ids) THEN <<>>
  ELSE (IF \E k \in 1..Len(illust) : illust[k].id = ids[i] THEN <<>> ELSE <<ids[i]>>)
       \o IdDiff(ids, illust, i + 1)

\* mutant of YieldDataLists: every id of data.page.ids is pushed
YieldDataListsNoFilter(illust, ids) ==
  LET lists == ClassifyWorks(illust, 1, Lists(<<>>, <<>>, <<>>))
  IN IF Len(ids) # Len(illust)
     THEN [lists EXCEPT !.unavaliable = @ \o ids]
     ELSE lists

\* the lists of yieldData of followLatestGenerator
YieldDataLists(illust, ids) ==
  LET lists == ClassifyWorks(illust, 1, Lists(<<>>, <<>>, <<>>))
      idDiff == IdDiff(ids, illust, 1)
  IN IF Len(ids) # Len(illust)
     THEN [lists EXCEPT !.unavaliable = @ \o idDiff]
     ELSE lists

\* the lists of seriesGenerator: series is the list of work ids of the page
RECURSIVE SeriesLists(_, _, _, _)
SeriesLists(series, illust, i, lists) ==
  IF i > Len(series) THEN lists
  ELSE LET workId == series[i]
           found == \E k \in 1..Len(illust) : illust[k].id = workId
           thumbnail == illust[CHOOSE k \in 1..Len(illust) :
                                 /\ illust[k].id = workId
                                 /\ \A j \in 1..(k - 1) : illust[j].id # workId]
       IN SeriesLists(series, illust, i + 1,
            IF ~found \/ thumbnail.isMasked
            THEN [lists EXCEPT !.unavaliable = Append(@, workId)]
            ELSE IF thumbnail.valid
            THEN [lists EXCEPT !.avaliable = Append(@, workId)]
            ELSE [lists EXCEPT !.invalid = Append(@, workId)])

\* Object.values(data.works).sort((a, b) => Number(b.id) - Number(a.id))
RECURSIVE SortDescending(_)
SortDescending(works) ==
  IF works = <<>> THEN <<>>
  ELSE LET first == CHOOSE i \in 1..Len(works) :
                      /\ \A j \in 1..Len(works) : works[j].id <= works[i].id
                      /\ \A j \in 1..(i - 1) : works[j].id < works[i].id
       IN <<works[first]>> \o SortDescending(Remove(works, first))

\* one response of the api is turned into the lists of the batch; a series
\* page without works makes seriesGenerator throw instead
YieldLists ==
  /\ out = <<>> /\ seq.at = "start"
  /\ IF seq.kind = "series" /\ srv.ids = <<>>
     THEN \* if (!series.length) throw new Error(`Invalid page: ${currentPage}`)
          /\ seq' = [seq EXCEPT !.at = "error", !.error = "Error"]
          /\ UNCHANGED out
     ELSE /\ out' = <<CASE seq.kind = "illustManga" ->
                             ClassifyWorks(SortDescending(srv.works), 1,
                                           Lists(<<>>, <<>>, <<>>))
                        [] seq.kind = "chunk" ->
                             ClassifyWorks(srv.works, 1, Lists(<<>>, <<>>, <<>>))
                        [] seq.kind = "followLatest" ->
                             YieldDataLists(srv.works, srv.ids)
                        [] seq.kind = "series" ->
                             SeriesLists(srv.ids, srv.works, 1, Lists(<<>>, <<>>, <<>>))>>
          /\ seq' = [seq EXCEPT !.at = "yielded"]
  /\ ev' = Event("next", <<>>, seq.kind)
  /\ UNCHANGED <<stores, tasks, signals, listener, waitState, filterInGen, pc,
                 avaliable, idx, dlPromise, status429, inflight, nextId, batches,
                 calls, abortCalls, abortArg, result, options, checked, dbVars,
                 srv, fetched>>

\* the responses: works with distinct ids in ascending order; the ids of a
\* follow-latest page include those of its thumbnails; the thumbnails of a
\* series page may lack works of the page
RECURSIVE WorkLists(_)
WorkLists(k) ==
  IF k = 0 THEN {<<>>}
  ELSE LET shorter == WorkLists(k - 1)
       IN shorter \cup
          {Append(ws, Work(k, m, v)) : ws \in shorter, m \in BOOLEAN, v \in BOOLEAN}
RECURSIVE IdLists(_)
IdLists(k) ==
  IF k = 0 THEN {<<>>}
  ELSE LET shorter == IdLists(k - 1)
       IN shorter \cup {Append(ids, k) : ids \in shorter}
IdsOf(works) == {works[k].id : k \in 1..Len(works)}
InitBatch ==
  /\ InitRun /\ filterInGen
  /\ NoDb
  /\ enableTagFilter = FALSE
  /\ whitelistTag = {} /\ blacklistTag = {}
  /\ includeFilters = <<>> /\ excludeFilters = <<>>
  /\ checked = NoCheck
  /\ out = <<>>
  /\ fetched = <<>>
  /\ seq \in {NewSeq(kind, NullRange) :
                kind \in {"illustManga", "chunk", "followLatest", "series"}}
  /\ \E works \in WorkLists(MaxWorks), ids \in IdLists(MaxWorks) :
       /\ seq.kind \in {"illustManga", "chunk"} => ids = <<>>
       /\ seq.kind = "followLatest"
            => IdsOf(works) \subseteq {ids[k] : k \in 1..Len(ids)}
       /\ srv = [works |-> works, ids |-> ids]

SpecBatch == InitBatch /\ [][YieldLists]_vars

\* C25: the avaliable, invalid and unavaliable lists of a batch are pairwise
\* disjoint and every candidate of the page is in exactly one of them, once:
\* masked and missing works in unavaliable, the others in avaliable or in
\* invalid as checkValidity decides.
Candidates ==
  IF seq.kind \in {"illustManga", "chunk"} THEN IdsOf(srv.works)
  ELSE SeqToSet(srv.ids)
Shown(id) == \E k \in 1..Len(srv.works) : srv.works[k].id = id
WorkOf(id) == srv.works[CHOOSE k \in 1..Len(srv.works) : srv.works[k].id = id]
C25_ListsDisjoint ==
  out # <<>>
    => LET b == out[1]
           av == SeqToSet(b.avaliable)
           inv == SeqToSet(b.invalid)
           un == SeqToSet(b.unavaliable)
       IN /\ av \cap inv = {} /\ av \cap un = {} /\ inv \cap un = {}
          /\ Len(b.avaliable) + Len(b.invalid) + Len(b.unavaliable)
               = Cardinality(Candidates)
          /\ av \cup inv \cup un = Candidates
          /\ \A id \in Candidates :
               /\ id \in un <=> (~Shown(id) \/ WorkOf(id).isMasked)
               /\ id \in av <=> (Shown(id) /\ ~WorkOf(id).isMasked /\ WorkOf(id).valid)
C25_Witness ==
  /\ seq.kind = "followLatest" /\ out # <<>>
  /\ out[1].avaliable = <<1>>
  /\ out[1].unavaliable = <<2, 3>>
  /\ srv.works = <<Work(1, FALSE, TRUE), Work(2, TRUE, TRUE)>>
  /\ srv.ids = <<1, 2, 3>>

\* C28: for a pulled batch every invalid id is added to excluded and every
\* unavaliable id to failed with reason 'Masked.'; parseMetaByArtworkId is
\* started only for an id of the avaliable list, and downloadByArtworkId
\* only when the parse of the same id has succeeded.
Masked(list, id) == \E k \in 1..Len(list) : list[k] = FailedItem(id, "Masked.")
C28_OnlyAvaliableIsParsed ==
  [][/\ (ev'.type = "yield" /\ batches' = batches + 1)
          => /\ excluded' = excluded \o IdsFrom(nextId, ev'.id[1])
             /\ failed' = failed \o
                  [i \in 1..ev'.id[2] |->
                     FailedItem(IdStr(nextId + ev'.id[1] + i - 1), "Masked.")]
     /\ (downloading /\ parseCalls' > parseCalls)
          => /\ idx' \in 1..Len(avaliable')
             /\ avaliable'[idx'] \notin SeqToSet(excluded')
             /\ ~Masked(failed', avaliable'[idx'])
     /\ (downloading /\ dlCalls' > dlCalls)
          => /\ ev'.type \in {"parseOk", "filter"}
             /\ pc \in {"parse", "filter"}
             /\ idx \in 1..Len(avaliable) /\ ev'.id = avaliable[idx]
             /\ \E t \in inflight' \ inflight : t.id = avaliable[idx]
             /\ avaliable[idx] \notin SeqToSet(excluded')
             /\ ~Masked(failed', avaliable[idx])]_vars
C28_Witness ==
  /\ downloading /\ batches = 1
  /\ failed = <<FailedItem(IdStr(1), "Masked.")>>
  /\ dlCalls = 1 /\ parseCalls = 1
  /\ \E t \in inflight : t.id = IdStr(2)

\* C29: with deferred filtering a download is dispatched only when
\* checkValidity accepted the parsed metadata of the id, and a rejected id
\* is added to excluded and not downloaded; with inline filtering every id
\* that parses is dispatched and the loop does not evaluate the filter.
C29_FilterOncePerMode ==
  [][/\ (~filterInGen /\ downloading /\ dlCalls' > dlCalls)
          => /\ pc \in {"parse", "filter"} /\ ev'.type = "filter"
             /\ checked'.called /\ checked'.result
             /\ \E t \in inflight' \ inflight : t.id = avaliable[idx]
     /\ (~filterInGen /\ pc \in {"parse", "filter"} /\ ev'.type = "filter"
           /\ ev' # ev /\ ~checked'.result)
          => /\ excluded' = Append(excluded, avaliable[idx])
             /\ dlCalls' = dlCalls /\ inflight' = inflight /\ tasks' = tasks
     /\ (filterInGen /\ pc = "parse" /\ ev'.type = "parseOk" /\ ev' # ev)
          => /\ dlCalls' = dlCalls + 1
             /\ \E t \in inflight' \ inflight : t.id = avaliable[idx]
             /\ checked' = checked /\ excluded' = excluded
     /\ filterInGen => pc' # "filter"]_vars
C29_Witness ==
  /\ ~filterInGen /\ downloading
  /\ checked.called /\ checked.result
  /\ excluded = <<IdStr(1)>>
  /\ dlCalls = 1 /\ parseCalls = 2
  /\ \E t \in inflight : t.id = IdStr(2)

\* C30: ids are handled in the order of the discovery sequence: within a
\* batch in list order, the next batch is pulled only when the last id of
\* avaliable has been handled, a dispatched id comes after every id handled
\* before it; successd and failed grow at their end, by the id whose task
\* or parse has just settled.
Before(list, id) == \A k \in 1..Len(list) : list[k][1] < id[1]
IsPrefix(p, q) == Len(p) <= Len(q) /\ \A k \in 1..Len(p) : p[k] = q[k]
C30_DispatchInSequenceOrder ==
  [][/\ (downloading /\ dlCalls' > dlCalls)
          => /\ idx \in 1..Len(avaliable)
             /\ \E t \in inflight' \ inflight : t.id = avaliable[idx]
             /\ \A t \in inflight : t.id[1] < avaliable[idx][1]
             /\ Before(successd, avaliable[idx]) /\ Before(excluded, avaliable[idx])
             /\ \A k \in 1..Len(failed) : failed[k].id[1] < avaliable[idx][1]
     /\ (downloading /\ downloading' /\ idx' # idx)
          => \/ idx' = idx + 1 /\ avaliable' = avaliable
             \/ idx' = 0 /\ avaliable' = <<>>
             \/ idx' = 1 /\ batches' = batches + 1
     /\ (downloading /\ genCalls' > genCalls) => idx = Len(avaliable)
     /\ (downloading /\ ev'.type = "taskOk")
          => successd' \in {successd, Append(successd, ev'.id)}
     /\ (downloading /\ ev'.type \in {"taskFail", "parseFail"})
          => failed' \in {failed, Append(failed, FailedItem(ev'.id, ev'.reason))}
     /\ downloading => (IsPrefix(successd, successd') /\ IsPrefix(failed, failed'))]_vars
C30_Witness ==
  /\ batches = 2 /\ dlCalls = 2
  /\ successd = <<IdStr(2), IdStr(1)>>
  /\ inflight = {}

\* C31: when generator.next() rejects during a run, the signal of the run is
\* aborted with that error, onDownloadAbort is called once, one Error log
\* entry for the error is written and downloading becomes false; from then
\* on the outcomes of the tasks in flight change neither successd nor failed
\* and the callback is not called again.
C31_ErrorTakesCancellationPath ==
  [][/\ (ev'.type = "genError")
          => /\ downloading /\ ~CurAborted
             /\ signals'[Len(signals')] = [aborted |-> TRUE, reason |-> ev'.reason]
             /\ Len(signals') = Len(signals)
             /\ abortCalls' = abortCalls + 1
             /\ abortArg' = tasks
             /\ log' = ErrorLog(ev'.reason)
             /\ result' = ev'.reason
             /\ ~downloading'
     /\ (result = "GeneratorError" /\ ev'.type # "batchDownload")
          => /\ successd' = successd /\ failed' = failed /\ excluded' = excluded
             /\ abortCalls' = abortCalls
             /\ log' = log
             /\ ~downloading']_vars

\* C32: followLatestGenerator called with a start page of at most PAGE_LIMIT
\* raises no error, whatever the feed holds, and yields at most one batch
\* more than the pages it may fetch.
C32_FollowLatestFinishes ==
  (seq.kind = "followLatest" /\ RequestedStart <= PAGE_LIMIT)
    => /\ seq.error = "none"
       /\ seq.at # "error"
       /\ Len(out) <= PAGE_LIMIT + 1

\* the entries of failed recorded with a rate-limit rejection
RateLimited ==
  {k \in 1..Len(failed) : failed[k].reason = "RequestError429"}
\* C33: a cooldown wait starts only with the 429 flag set and ends with the
\* flag cleared, and the flag is set only by a step that records a
\* rate-limit rejection in failed, so that one rate-limited item causes at
\* most one cooldown; an id whose iteration starts while the flag is set
\* waits for the cooldown; a rate-limited id occurs once in failed and is
\* not parsed or dispatched again; a run with one rate-limited item that
\* ends Completed has artworkCount equal to the sum of the three lists.
C33_OneCooldownPerRateLimit ==
  /\ [][/\ (pc # "cooldown" /\ pc' = "cooldown") => (status429' /\ downloading')
        /\ (pc = "cooldown" /\ pc' # "cooldown") => ~status429'
        /\ (~status429 /\ status429')
             => /\ ev'.reason = "RequestError429"
                /\ failed' = Append(failed, FailedItem(ev'.id, "RequestError429"))
        /\ (status429 /\ downloading' /\ idx' # idx /\ idx' > 0) => pc' = "cooldown"
        /\ \A k \in RateLimited :
             /\ Occurrences(failed, failed[k].id) = 1
             /\ (parseCalls' > parseCalls \/ dlCalls' > dlCalls)
                  => avaliable'[idx'] # failed[k].id]_vars
  /\ []((result = "completed" /\ Cardinality(RateLimited) = 1)
          => artworkCount = ListSum)

\* the ids recorded in the three lists, and an upper bound of the ids the
\* current run has pulled: none before its first batch
Recorded == successd \o [k \in 1..Len(failed) |-> failed[k].id] \o excluded
Pulled == IF batches = 0 THEN 0 ELSE nextId - 1
\* C34: during a run no id occurs twice in successd, failed and excluded
\* taken together, and the three lists together are not longer than the
\* number of ids the run has pulled.
C34_EachIdRecordedOnce ==
  downloading
    => /\ \A i \in 1..Len(Recorded) : \A j \in 1..Len(Recorded) :
            Recorded[i] = Recorded[j] => i = j
       /\ ListSum <= Pulled

\* the number of ids in the first i batches yielded, with every batch
\* counted, and with every page of the api counted once
RECURSIVE YieldedIds(_)
YieldedIds(i) == IF i = 0 THEN 0 ELSE YieldedIds(i - 1) + out[i].n
RECURSIVE YieldedOnce(_)
YieldedOnce(i) ==
  IF i = 0 THEN 0
  ELSE YieldedOnce(i - 1)
       + (IF \E j \in 1..(i - 1) : out[j].src = out[i].src THEN 0 ELSE out[i].n)
\* C38: when a discovery sequence has finished normally, the ids of the
\* pages it yielded are as many as the total of its last batch, and the ids
\* yielded up to a batch reach the total of that batch only when no id is
\* yielded after it, so that artworkCount equals the number of recorded ids
\* only when the last yielded id is recorded.
C38_YieldedEqualsTotal ==
  (seq.at = "done" /\ out # <<>>)
    => /\ YieldedOnce(Len(out)) = out[Len(out)].total
       /\ \A i \in 1..Len(out) :
            /\ YieldedIds(i) <= out[i].total
            /\ YieldedIds(i) = out[i].total => YieldedIds(Len(out)) = YieldedIds(i)

\* batchDownload may be called at any time, also during a run; one batch
\* with an exact total, every parse and every download succeeds
NextBusy ==
  \/ \E fnId \in ConfiguredFnIds : BatchDownload(fnId, TRUE, 1, 1)
  \/ \E na \in 1..MaxIds : GenYieldIn(0, 0, na, nextId + na - 1, MaxIds, MaxBatches)
  \/ GenDone
  \/ TimerFires
  \/ ResumeResolved
  \/ ResumeByAbort
  \/ \E f \in {"pending", "valid"} : ParseSettles("ok", f)
  \/ FilterSettles(TRUE)
  \/ \E t \in inflight : TaskSettles(t, "ok")
  \/ Abort

SpecBusy == Init /\ [][NextBusy]_vars

\* C35: a batchDownload call made while downloading is true fails with
\* 'Already downloading.' and changes neither artworkCount, the three lists,
\* the tasks, the controller nor downloading; a controller is created only
\* when no run is active.
C35_OneRunAtATime ==
  [][/\ (downloading /\ ev'.type = "batchDownload" /\ ev' # ev)
          => /\ ev'.reason = "Already downloading."
             /\ UNCHANGED <<artworkCount, successd, failed, excluded, tasks,
                            inflight, signals, listener, waitState, downloading,
                            pc, log, result>>
     /\ (Len(signals') > Len(signals)) => ~downloading]_vars
C35_Witness ==
  /\ downloading
  /\ ev.type = "batchDownload" /\ ev.reason = "Already downloading."
  /\ inflight # {} /\ successd # <<>>
  /\ artworkCount = 2

\* C36: when a download task dispatched by an earlier run settles after a
\* later run has started, successd and failed do not change,
\* waitUntilDownloadComplete of the later run is not settled and its 429
\* flag is not set.
C36_EarlierRunTasksIgnored ==
  [][\A t \in inflight \ inflight' :
       (t.run < Len(signals) /\ ev'.type \in {"taskOk", "taskFail"})
         => /\ successd' = successd /\ failed' = failed
            /\ waitState' = waitState
            /\ status429' = status429]_vars

\* C37: once abort() has been called during a run, parseMetaByArtworkId is
\* not called again and excluded does not grow in that run.
C37_NoParseAfterAbort ==
  [][(downloading /\ CurAborted /\ CurReason = "CancelError")
       => /\ parseCalls' = parseCalls
          /\ excluded' = excluded]_vars

\* C39: add, bulkAdd and clear with valid arguments do not fail, whether or
\* not the load of the mirror has finished, and once the load has finished
\* and no call is at work has(pid) is true exactly for the work ids that
\* have a row in the table: nothing written is missing and nothing cleared
\* is reported.
C39_MutationsBeforeLoad ==
  /\ ev.type \in {"add", "scope", "bulkAdd", "clear", "db"}
       => thrown \in {"none", "InvalidNumber"}
  /\ (ev.type \in {"add", "scope"} /\ thrown = "InvalidNumber")
       => \E k \in 1..Len(ev.id) : ev.id[k] # Undefined /\ ThrowIfInvalidNumber(ev.id[k])
  /\ AtRest
       => \A pid \in Pids : Has(pid) <=> history[pid].kind # "none"

====
